---- MODULE Spec2Model ----
(***************************************************************************)
(* Metric aggregation and filtering engine of the workplace-safety         *)
(* dashboard (src/src/data.py), as a state machine.                        *)
(*                                                                         *)
(* Process-wide state: the base dataset `data`, the precomputed table      *)
(* `region_safety_score` and the min/max/mean dictionaries.  A request     *)
(* calls one function of the engine; its arguments and result are kept in  *)
(* `call` until the request returns.                                       *)
(*                                                                         *)
(* The callbacks of src/application.py work on the component properties    *)
(* of a browser session (`layout`); a callback is one action, taking its   *)
(* Input/State values from the session it serves and writing its Outputs   *)
(* back to it.  A figure is the chart kind with the arguments its table    *)
(* is prepared from.  cache.memoize entries expire: every memoized call    *)
(* is taken as a miss, so the function body runs.                          *)
(*                                                                         *)
(* Numbers.  pandas computes with IEEE doubles.  A value is modelled as    *)
(* an exact non-negative rational in mixed form i + n/d (n < d, n/d in     *)
(* lowest terms), or +infinity, or NaN, with the IEEE rules for division   *)
(* by zero and for NaN; rounding is not modelled.                          *)
(***************************************************************************)
EXTENDS Integers, Sequences, FiniteSets, TLC

VARIABLES
    data,                 \* data.py:7    the base dataset (a DataFrame object)
    categorical,          \* dtype of the key columns of the parquet file
    region_safety_score,  \* data.py:193  precomputed full-dataset table
    min_metric_values,    \* data.py:196
    max_metric_values,    \* data.py:197
    mean_metric_values,   \* data.py:198
    pc,                   \* "idle" | "done": position of the current request
    call,                 \* arguments and result of the current request
    layout,               \* layouts.py: component properties, per session
    triggered,            \* per session: callbacks whose Inputs have changed
    events                \* number of user interactions so far

vars == <<data, categorical, region_safety_score, min_metric_values,
          max_metric_values, mean_metric_values, pc, call,
          layout, triggered, events>>

browser == <<layout, triggered, events>>

globals == <<data, categorical, region_safety_score, min_metric_values,
             max_metric_values, mean_metric_values>>

(***************************************************************************)
(* Bounds                                                                  *)
(***************************************************************************)
MaxRecords == 3       \* rows of the base dataset
MaxRadarCalls == 2    \* prepare_radar_data calls on the base dataset
MaxEvents == 3        \* user interactions, all sessions together

(***************************************************************************)
(* Program constants                                                       *)
(***************************************************************************)
IncidentRateScale == 100000   \* 1e5
FatalityRateScale == 10000    \* 1e4
ExposureScale == 100          \* 1e2
\* danger_score weights, in hundredths: 2.38, 3.33, 0.37, 1.4
WeightIncidentRate == 238
WeightFatalityRate == 333
WeightLostWorkdayRate == 37
WeightWorkforceExposure == 140
WeightDenominator == 100

None == "None"

(***************************************************************************)
(* Values: exact rationals, +inf, NaN                                      *)
(***************************************************************************)
RECURSIVE GCD(_, _)
GCD(a, b) == IF b = 0 THEN a ELSE GCD(b, a % b)

NaN == [k |-> "nan", i |-> 0, n |-> 0, d |-> 1]
Inf == [k |-> "inf", i |-> 0, n |-> 0, d |-> 1]

\* num/den for num >= 0, den > 0
Frac(num, den) ==
    LET r == num % den
        g == GCD(r, den)
    IN  [k |-> "fin", i |-> num \div den, n |-> r \div g, d |-> den \div g]

Whole(i) == Frac(i, 1)
Zero == Whole(0)

IsFin(v) == v.k = "fin"
IsNaN(v) == v.k = "nan"

\* a + b
Add(a, b) ==
    IF IsNaN(a) \/ IsNaN(b) THEN NaN
    ELSE IF a.k = "inf" \/ b.k = "inf" THEN Inf
    ELSE LET f == Frac(a.n * b.d + b.n * a.d, a.d * b.d)
         IN  [k |-> "fin", i |-> a.i + b.i + f.i, n |-> f.n, d |-> f.d]

\* m * v for an integer m > 0
MulInt(m, v) ==
    IF ~IsFin(v) THEN v
    ELSE LET f == Frac(m * v.n, v.d)
         IN  [k |-> "fin", i |-> m * v.i + f.i, n |-> f.n, d |-> f.d]

\* v / m for an integer m > 0
DivInt(v, m) ==
    IF ~IsFin(v) THEN v
    ELSE LET f == Frac((v.i % m) * v.d + v.n, v.d * m)
         IN  [k |-> "fin", i |-> v.i \div m, n |-> f.n, d |-> f.d]

\* a / b where b is a whole number, +0 or NaN (a count or a sum of a column)
Div(a, b) ==
    IF IsNaN(a) \/ IsNaN(b) THEN NaN
    ELSE IF b.i = 0 THEN (IF a = Zero THEN NaN ELSE Inf)
    ELSE DivInt(a, b.i)

\* a <= b on finite values
LeFin(a, b) == a.i < b.i \/ (a.i = b.i /\ a.n * b.d <= b.n * a.d)

\* the float comparisons a <= b and a > b (False when either side is NaN)
Le(a, b) ==
    /\ ~IsNaN(a) /\ ~IsNaN(b)
    /\ \/ b.k = "inf"
       \/ IsFin(a) /\ IsFin(b) /\ LeFin(a, b)

Gt(a, b) == ~IsNaN(a) /\ ~IsNaN(b) /\ ~Le(a, b)

\* a - b for finite a >= b
SubFin(a, b) ==
    LET num == a.n * b.d - b.n * a.d
        den == a.d * b.d
    IN  IF num >= 0
        THEN LET f == Frac(num, den)
             IN  [k |-> "fin", i |-> a.i - b.i, n |-> f.n, d |-> f.d]
        ELSE LET f == Frac(num + den, den)
             IN  [k |-> "fin", i |-> a.i - b.i - 1, n |-> f.n, d |-> f.d]

RECURSIVE SumVals(_)
SumVals(s) == IF s = <<>> THEN Zero ELSE Add(Head(s), SumVals(Tail(s)))

RECURSIVE SumInts(_)
SumInts(s) == IF s = <<>> THEN 0 ELSE Head(s) + SumInts(Tail(s))

Range(s) == {s[j] : j \in 1..Len(s)}

\* <<F(s[1]), ..., F(s[Len(s)])>>
Map(s, F(_)) ==
    LET RECURSIVE Go(_)
        Go(j) == IF j > Len(s) THEN <<>> ELSE <<F(s[j])>> \o Go(j + 1)
    IN  Go(1)

\* the function f, written out as an explicit table
Table(f) == f @@ f

\* the element of a one-element set; The({e(x) : x \in {v}}) is e(v) with v
\* evaluated once
The(S) == CHOOSE x \in S : TRUE

(***************************************************************************)
(* The dataset.  A DataFrame object is [id, rows]: `id` is the identity    *)
(* of the object ("data" for the module-level base dataset, "new" for a    *)
(* table some call has just built), `rows` its records in order.           *)
(***************************************************************************)
StateOrder == <<"CA", "TX">>                      \* sorted state codes
SocOrder == <<"Construction", "Production">>      \* sorted soc_description_1
IncidentTypes == {"Burn", "Fall"}
Dates == 1..3                                     \* day numbers
Columns == {None, "soc_description_1"}            \* secondary grouping column
Metrics == <<"incident_rate", "fatality_rate", "lost_workday_rate",
             "workforce_exposure", "danger_score">>

\* Company-level fields, constant per (state_code, company_name).
CompanyProfiles ==
    << [CA_Acme |-> [total_hours_worked |-> 2, annual_average_employees |-> 1],
        CA_Bolt |-> [total_hours_worked |-> 1, annual_average_employees |-> 2],
        TX_Acme |-> [total_hours_worked |-> 1, annual_average_employees |-> 1]],
       [CA_Acme |-> [total_hours_worked |-> 0, annual_average_employees |-> 0],
        CA_Bolt |-> [total_hours_worked |-> 2, annual_average_employees |-> 1],
        TX_Acme |-> [total_hours_worked |-> 0, annual_average_employees |-> 2]] >>

\* Injury-level fields of the incidents a dataset is drawn from.
IncidentPool ==
    << [state_code |-> "CA", company_name |-> "Acme", date_of_incident |-> 1,
        type_of_incident |-> "Fall", death |-> 0, dafw_num_away |-> 0,
        djtr_num_tr |-> 0, soc_description_1 |-> "Construction",
        soc_description_2 |-> "Roofers", incident_outcome |-> "Days away",
        time_started_work |-> [hour |-> 8, minute |-> 0],
        time_of_incident |-> [hour |-> 9, minute |-> 30],
        establishment_type |-> "Private",
        naics_description_5 |-> "Roofing Contractors"],
       [state_code |-> "CA", company_name |-> "Acme", date_of_incident |-> 2,
        type_of_incident |-> "Burn", death |-> 1, dafw_num_away |-> 2,
        djtr_num_tr |-> 1, soc_description_1 |-> "Production",
        soc_description_2 |-> "Welders", incident_outcome |-> "Death",
        time_started_work |-> [hour |-> 8, minute |-> 30],
        time_of_incident |-> [hour |-> 14, minute |-> 0],
        establishment_type |-> "Private",
        naics_description_5 |-> "Metal Fabrication"],
       [state_code |-> "CA", company_name |-> "Bolt", date_of_incident |-> 2,
        type_of_incident |-> "Fall", death |-> 0, dafw_num_away |-> 1,
        djtr_num_tr |-> 0, soc_description_1 |-> "Construction",
        soc_description_2 |-> "Carpenters", incident_outcome |-> "Days away",
        time_started_work |-> [hour |-> 6, minute |-> 0],
        time_of_incident |-> [hour |-> 9, minute |-> 0],
        establishment_type |-> "State government",
        naics_description_5 |-> "Roofing Contractors"],
       [state_code |-> "TX", company_name |-> "Acme", date_of_incident |-> 1,
        type_of_incident |-> "Burn", death |-> 0, dafw_num_away |-> 0,
        djtr_num_tr |-> 2, soc_description_1 |-> "Production",
        soc_description_2 |-> "Welders", incident_outcome |-> "Days away",
        time_started_work |-> [hour |-> 8, minute |-> 0],
        time_of_incident |-> [hour |-> 10, minute |-> 0],
        establishment_type |-> "Private",
        naics_description_5 |-> "Metal Fabrication"],
       [state_code |-> "TX", company_name |-> "Acme", date_of_incident |-> 3,
        type_of_incident |-> "Fall", death |-> 1, dafw_num_away |-> 3,
        djtr_num_tr |-> 0, soc_description_1 |-> "Construction",
        soc_description_2 |-> "Roofers", incident_outcome |-> "Death",
        time_started_work |-> [hour |-> 22, minute |-> 0],
        time_of_incident |-> [hour |-> 23, minute |-> 30],
        establishment_type |-> "State government",
        naics_description_5 |-> "Roofing Contractors"] >>

CompanyId(r) == IF r.state_code = "TX" THEN "TX_Acme"
                ELSE IF r.company_name = "Acme" THEN "CA_Acme" ELSE "CA_Bolt"

\* One record of the file: the incident with its company's fields repeated.
Record(profile, j) == IncidentPool[j] @@ CompanyProfiles[profile][CompanyId(IncidentPool[j])]

\* the incidents of `picked` in file order, ascending or descending
PickOrder(picked, ascending) ==
    LET RECURSIVE Walk(_)
        Walk(j) == IF j > Len(IncidentPool) THEN <<>>
                   ELSE LET here == IF j \in picked THEN <<j>> ELSE <<>>
                        IN  IF ascending THEN here \o Walk(j + 1)
                            ELSE Walk(j + 1) \o here
    IN  Walk(1)

\* The files the model loads: between 1 and MaxRecords distinct incidents.
Datasets ==
    { [id |-> "data",
       rows |-> [j \in 1..Cardinality(picked) |->
                   Record(profile, PickOrder(picked, ascending)[j])]] :
        profile \in 1..Len(CompanyProfiles),
        ascending \in BOOLEAN,
        picked \in {x \in SUBSET (1..Len(IncidentPool)) :
                      Cardinality(x) \in 1..MaxRecords} }

(***************************************************************************)
(* Tables.  A table is [columns, rows]: `columns` the value columns in     *)
(* order, a row [key, cell] with `key` the grouping key (<<state_code>> or *)
(* <<state_code, secondary>>) and `cell` the value of each column.         *)
(***************************************************************************)
KeyOf(r, column) ==
    IF column = None THEN <<r.state_code>> ELSE <<r.state_code, r[column]>>

\* every possible key, sorted as groupby sorts its keys
KeyUniverse(column) ==
    IF column = None THEN [j \in 1..Len(StateOrder) |-> <<StateOrder[j]>>]
    ELSE [j \in 1..(Len(StateOrder) * Len(SocOrder)) |->
            <<StateOrder[((j - 1) \div Len(SocOrder)) + 1],
              SocOrder[((j - 1) % Len(SocOrder)) + 1]>>]

\* the categories of a categorical column: the values of the base dataset
Categories(column) == {data.rows[j][column] : j \in 1..Len(data.rows)}

\* df.groupby(agg_cols, observed=False): the group keys, sorted.  With
\* categorical key columns observed=False yields every combination of
\* categories; with plain columns only the keys that occur.
GroupKeys(rows, column) ==
    LET Present(key) ==
            \/ \E j \in 1..Len(rows) : KeyOf(rows[j], column) = key
            \/ /\ categorical
               /\ key[1] \in Categories("state_code")
               /\ column # None => key[2] \in Categories(column)
    IN  SelectSeq(KeyUniverse(column), Present)

Group(rows, column, key) ==
    LET InGroup(r) == KeyOf(r, column) = key
    IN  SelectSeq(rows, InGroup)

FieldOf(rows, field) == Map(rows, LAMBDA r : r[field])

\* one named aggregation of a group: case_number=("case_number", "count"),
\* any other name=(name, "sum")
NamedAgg(name, group) ==
    IF name = "case_number" THEN Whole(Len(group))
    ELSE Whole(SumInts(FieldOf(group, name)))

\* rows.groupby(agg_cols, observed=False).agg(...).reset_index()
groupby_agg(rows, column, names) ==
    [columns |-> names,
     rows |-> Map(GroupKeys(rows, column),
                  LAMBDA key : [key |-> key,
                                cell |-> Table([c \in Range(names) |->
                                            NamedAgg(c, Group(rows, column, key))])])]

\* drop_duplicates after grouping: the first row of every
\* (state_code, soc_description_1, company_name)
drop_duplicates_per_group(rows) ==
    LET idx == {j \in 1..Len(rows) :
                  ~\E h \in 1..(j - 1) :
                      /\ rows[h].state_code = rows[j].state_code
                      /\ rows[h].soc_description_1 = rows[j].soc_description_1
                      /\ rows[h].company_name = rows[j].company_name}
        RECURSIVE Take(_)
        Take(j) == IF j > Len(rows) THEN <<>>
                   ELSE (IF j \in idx THEN <<rows[j]>> ELSE <<>>) \o Take(j + 1)
    IN  Take(1)

\* df.drop_duplicates(subset=["state_code", "company_name"]): keeps the first
\* row of every (state_code, company_name)
drop_duplicates(rows) ==
    LET idx == {j \in 1..Len(rows) :
                  ~\E h \in 1..(j - 1) :
                      /\ rows[h].state_code = rows[j].state_code
                      /\ rows[h].company_name = rows[j].company_name}
        RECURSIVE Take(_)
        Take(j) == IF j > Len(rows) THEN <<>>
                   ELSE (IF j \in idx THEN <<rows[j]>> ELSE <<>>) \o Take(j + 1)
    IN  Take(1)

RECURSIVE Flatten(_)
Flatten(ss) == IF ss = <<>> THEN <<>> ELSE Head(ss) \o Flatten(Tail(ss))

\* left.merge(right, on=agg_cols, how="left")
merge_left(left, right) ==
    LET Joined(lt, rt, l) ==
            LET Matches(r) == r.key = l.key
            IN  The({ IF m = <<>>
                      THEN << [key |-> l.key,
                               cell |-> l.cell @@ [c \in Range(rt.columns) |-> NaN]] >>
                      ELSE Map(m, LAMBDA r : [key |-> l.key, cell |-> l.cell @@ r.cell]) :
                      m \in {SelectSeq(rt.rows, Matches)} })
    IN  The({ [columns |-> lt.columns \o rt.columns,
               rows |-> Flatten(Map(lt.rows, LAMBDA l : Joined(lt, rt, l)))] :
              lt \in {left}, rt \in {right} })

\* table[name] = F(row)
assign(table, name, F(_)) ==
    The({ [columns |-> IF name \in Range(t.columns) THEN t.columns
                       ELSE Append(t.columns, name),
           rows |-> Map(t.rows,
                        LAMBDA r : [key |-> r.key,
                                    cell |-> (name :> F(r)) @@ r.cell])] :
          t \in {table} })

\* table[agg_cols + names]
project(table, names) ==
    [columns |-> names,
     rows |-> Map(table.rows,
                  LAMBDA r : [key |-> r.key,
                              cell |-> Table([c \in Range(names) |-> r.cell[c]])])]

(***************************************************************************)
(* Metric functions (data.py:14-190)                                       *)
(***************************************************************************)
\* the company-level sum taken over the raw incident rows
aggregate_company_data_raw(df, column, field) ==
    groupby_agg(df.rows, column, <<field>>)

\* Deduplicate for company-level fields, then sum `field` per group:
\* df.drop_duplicates(...).groupby(agg_cols).agg(field=(field, "sum"))
aggregate_company_data(df, column, field) ==
    LET deduplicated == drop_duplicates(df.rows)
    IN  groupby_agg(deduplicated, column, <<field>>)

compute_agg_incident_rate(df, column) ==
    LET injury_data == groupby_agg(df.rows, column, <<"case_number">>)
        company_data == aggregate_company_data(df, column, "total_hours_worked")
        temp == merge_left(injury_data, company_data)
        rate(r) == IF Gt(r.cell["total_hours_worked"], Zero)
                   THEN MulInt(IncidentRateScale,
                               Div(r.cell["case_number"], r.cell["total_hours_worked"]))
                   ELSE Zero
    IN  project(assign(temp, "incident_rate", rate), <<"incident_rate">>)

compute_agg_fatality_rate(df, column) ==
    LET temp == groupby_agg(df.rows, column, <<"death", "case_number">>)
        rate(r) == IF Gt(r.cell["case_number"], Zero)
                   THEN MulInt(FatalityRateScale,
                               Div(r.cell["death"], r.cell["case_number"]))
                   ELSE Zero
    IN  project(assign(temp, "fatality_rate", rate), <<"fatality_rate">>)

compute_agg_lost_workday_rate(df, column) ==
    LET injury_data == groupby_agg(df.rows, column,
                                   <<"dafw_num_away", "djtr_num_tr", "case_number">>)
        lost(r) == Add(r.cell["dafw_num_away"], r.cell["djtr_num_tr"])
        with_lost == assign(injury_data, "total_lost_days", lost)
        rate(r) == IF Gt(r.cell["case_number"], Zero)
                   THEN Div(r.cell["total_lost_days"], r.cell["case_number"])
                   ELSE Zero
    IN  project(assign(with_lost, "lost_workday_rate", rate), <<"lost_workday_rate">>)

compute_workforce_exposure(df, column) ==
    LET injury_data == groupby_agg(df.rows, column, <<"case_number">>)
        company_data == aggregate_company_data(df, column, "annual_average_employees")
        temp == merge_left(injury_data, company_data)
        rate(r) == IF Gt(r.cell["case_number"], Zero)
                   THEN MulInt(ExposureScale,
                               Div(r.cell["case_number"],
                                   r.cell["annual_average_employees"]))
                   ELSE Zero
    IN  project(assign(temp, "workforce_exposure", rate), <<"workforce_exposure">>)

\* the weights of fatality_rate and lost_workday_rate exchanged
danger_score_swapped(a, b, c, e) ==
    DivInt(Add(Add(Add(MulInt(WeightIncidentRate, a), MulInt(WeightLostWorkdayRate, b)),
                   MulInt(WeightFatalityRate, c)),
               MulInt(WeightWorkforceExposure, e)),
           WeightDenominator)

\* 2.38*a + 3.33*b + 0.37*c + 1.4*e
danger_score(a, b, c, e) ==
    DivInt(Add(Add(Add(MulInt(WeightIncidentRate, a), MulInt(WeightFatalityRate, b)),
                   MulInt(WeightLostWorkdayRate, c)),
               MulInt(WeightWorkforceExposure, e)),
           WeightDenominator)

compute_agg_safety_score(df, column) ==
    LET stats1 == compute_agg_incident_rate(df, column)
        stats2 == merge_left(stats1, compute_agg_fatality_rate(df, column))
        stats3 == merge_left(stats2, compute_agg_lost_workday_rate(df, column))
        stats4 == merge_left(stats3, compute_workforce_exposure(df, column))
        score(r) == danger_score(r.cell["incident_rate"], r.cell["fatality_rate"],
                                 r.cell["lost_workday_rate"],
                                 r.cell["workforce_exposure"])
    IN  assign(stats4, "danger_score", score)

kpi_name_function_mapping(kpi, df, column) ==
    CASE kpi = "incident_rate" -> compute_agg_incident_rate(df, column)
      [] kpi = "fatality_rate" -> compute_agg_fatality_rate(df, column)
      [] kpi = "lost_workday_rate" -> compute_agg_lost_workday_rate(df, column)
      [] kpi = "workforce_exposure" -> compute_workforce_exposure(df, column)
      [] kpi = "danger_score" -> compute_agg_safety_score(df, column)

(***************************************************************************)
(* Column statistics (pandas min / max / mean skip NaN)                    *)
(***************************************************************************)
ColumnData(table, c) == Map(table.rows, LAMBDA r : r.cell[c])

NotNaN(v) == ~IsNaN(v)

column_min(vals) ==
    LET present == Range(SelectSeq(vals, NotNaN))
    IN  IF present = {} THEN NaN
        ELSE CHOOSE v \in present : \A w \in present : Le(v, w)

column_max(vals) ==
    LET present == Range(SelectSeq(vals, NotNaN))
    IN  IF present = {} THEN NaN
        ELSE CHOOSE v \in present : \A w \in present : Le(w, v)

column_mean(vals) ==
    LET present == SelectSeq(vals, NotNaN)
    IN  IF present = <<>> THEN NaN
        ELSE DivInt(SumVals(present), Len(present))

(***************************************************************************)
(* filter_data (data.py:208-240)                                           *)
(***************************************************************************)
DateMin(rows) == CHOOSE x \in Range(FieldOf(rows, "date_of_incident")) :
                    \A y \in Range(FieldOf(rows, "date_of_incident")) : x <= y
DateMax(rows) == CHOOSE x \in Range(FieldOf(rows, "date_of_incident")) :
                    \A y \in Range(FieldOf(rows, "date_of_incident")) : x >= y

\* the fast path taken on the dates alone
filter_data_dates_only(df, start_date, end_date, filter_incident_types) ==
    LET use_precomputed ==
            /\ df.rows # <<>>
            /\ start_date = DateMin(df.rows)
            /\ end_date = DateMax(df.rows)
        InRange(r) == r.date_of_incident >= start_date /\ r.date_of_incident <= end_date
        OfType(r) == r.type_of_incident \in filter_incident_types
        by_date == SelectSeq(df.rows, InRange)
        filtered_data == IF filter_incident_types # {}
                         THEN SelectSeq(by_date, OfType) ELSE by_date
    IN  IF use_precomputed THEN df ELSE [id |-> "new", rows |-> filtered_data]

\* the end date excluded
filter_data_end_exclusive(df, start_date, end_date, filter_incident_types) ==
    LET use_precomputed ==
            /\ df.rows # <<>>
            /\ start_date = DateMin(df.rows)
            /\ end_date = DateMax(df.rows)
        InRange(r) == r.date_of_incident >= start_date /\ r.date_of_incident < end_date
        OfType(r) == r.type_of_incident \in filter_incident_types
        by_date == SelectSeq(df.rows, InRange)
        filtered_data == IF filter_incident_types # {}
                         THEN SelectSeq(by_date, OfType) ELSE by_date
    IN  IF use_precomputed /\ filter_incident_types = {}
        THEN df
        ELSE [id |-> "new", rows |-> filtered_data]

filter_data(df, start_date, end_date, filter_incident_types) ==
    LET use_precomputed ==
            /\ df.rows # <<>>      \* min() of no rows is NaT, equal to nothing
            /\ start_date = DateMin(df.rows)
            /\ end_date = DateMax(df.rows)
        InRange(r) == r.date_of_incident >= start_date /\ r.date_of_incident <= end_date
        OfType(r) == r.type_of_incident \in filter_incident_types
        by_date == SelectSeq(df.rows, InRange)
        filtered_data == IF filter_incident_types # {}
                         THEN SelectSeq(by_date, OfType) ELSE by_date
    IN  IF use_precomputed /\ filter_incident_types = {}
        THEN df
        ELSE [id |-> "new", rows |-> filtered_data]

(***************************************************************************)
(* Radar preparer (data.py:243-340)                                        *)
(***************************************************************************)
\* Adds a column mean_<col> for every value column of the table it is given,
\* in place: the table returned is the argument itself.
prepare_mean_radar_data(radar_region_safety_score) ==
    LET Means(t) == Table([c \in Range(t.columns) |-> column_mean(ColumnData(t, c))])
        RECURSIVE Loop(_, _, _, _)
        Loop(table, mean_values, index, j) ==
            IF j > Len(index) THEN table
            ELSE Loop(assign(table, "mean_" \o index[j],
                             LAMBDA r : mean_values[index[j]]),
                      mean_values, index, j + 1)
    IN  The({ The({ Loop(t, mean_values, t.columns, 1) : mean_values \in {Means(t)} }) :
              t \in {radar_region_safety_score} })

\* A scaled value is the quotient (+/-) num / den of two exact values, or
\* inf / nan; `divided` records that the division was evaluated.
Literal0 == [k |-> "quot", neg |-> FALSE, num |-> Zero, den |-> Whole(1), divided |-> FALSE]
Quotient(k, neg, num, den) ==
    [k |-> k, neg |-> neg, num |-> num, den |-> den, divided |-> TRUE]

\* (value - lo) / (hi - lo), evaluated when hi > lo
divide_range(value, lo, hi) ==
    IF IsNaN(value) THEN Quotient("nan", FALSE, Zero, Whole(1))
    ELSE IF hi.k = "inf"
         THEN IF IsFin(value) THEN Quotient("quot", FALSE, Zero, Whole(1))
              ELSE Quotient("nan", FALSE, Zero, Whole(1))
    ELSE IF value.k = "inf" THEN Quotient("inf", FALSE, Zero, Whole(1))
    ELSE IF LeFin(lo, value)
         THEN Quotient("quot", FALSE, SubFin(value, lo), SubFin(hi, lo))
         ELSE Quotient("quot", TRUE, SubFin(lo, value), SubFin(hi, lo))

\* the range test dropped: the division is evaluated for every range
scale_unguarded(value, metric) ==
    divide_range(value, min_metric_values[metric], max_metric_values[metric])

\* (value - min) / (max - min) if max > min else 0
scale(value, metric) ==
    IF Gt(max_metric_values[metric], min_metric_values[metric])
    THEN divide_range(value, min_metric_values[metric], max_metric_values[metric])
    ELSE Literal0

calculate_mean_values(metrics, mean_values) ==
    [j \in 1..Len(metrics) |-> scale(mean_values[j], metrics[j])]

\* the precomputed table is taken for every record set
prepare_radar_data_always_precomputed(df, state_code) ==
    LET OfState(r) == r.key = <<state_code>>
        Radar(radar_region_safety_score) ==
            LET selected == SelectSeq(radar_region_safety_score.rows, OfState)
                metric_values == selected[1].cell
                mean_values ==
                    [j \in 1..Len(Metrics) |->
                       radar_region_safety_score.rows[1].cell["mean_" \o Metrics[j]]]
            IN  IF Len(selected) # 1
                THEN [table |-> radar_region_safety_score, raised |-> TRUE,
                      rows |-> <<>>]
                ELSE [table |-> radar_region_safety_score, raised |-> FALSE,
                      rows |-> Table([j \in 1..Len(Metrics) |->
                                  [kpi |-> Metrics[j],
                                   value |-> metric_values[Metrics[j]],
                                   scaled_value |->
                                      scale(metric_values[Metrics[j]], Metrics[j]),
                                   mean_value |-> mean_values[j],
                                   scaled_mean_value |->
                                      scale(mean_values[j], Metrics[j])]])]
    IN  The({ Radar(t) : t \in {prepare_mean_radar_data(region_safety_score)} })

\* [table, raised, rows]: `table` is radar_region_safety_score as the call
\* leaves it, `rows` the returned radar table.  The call raises when the
\* table has no row for state_code (squeeze() leaves an empty DataFrame,
\* which has no tolist; iloc[0] of an empty column is an IndexError).
prepare_radar_data(df, state_code) ==
    LET source == IF df.id = data.id THEN region_safety_score
                  ELSE compute_agg_safety_score(df, None)
        OfState(r) == r.key = <<state_code>>
        Radar(radar_region_safety_score) ==
            LET selected == SelectSeq(radar_region_safety_score.rows, OfState)
                metric_values == selected[1].cell
                scaled_values == [j \in 1..Len(Metrics) |->
                                    scale(metric_values[Metrics[j]], Metrics[j])]
                mean_values ==
                    [j \in 1..Len(Metrics) |->
                       radar_region_safety_score.rows[1].cell["mean_" \o Metrics[j]]]
                scaled_mean_values == calculate_mean_values(Metrics, mean_values)
            IN  IF Len(selected) # 1
                THEN [table |-> radar_region_safety_score, raised |-> TRUE,
                      rows |-> <<>>]
                ELSE [table |-> radar_region_safety_score, raised |-> FALSE,
                      rows |-> Table([j \in 1..Len(Metrics) |->
                                  [kpi |-> Metrics[j],
                                   value |-> metric_values[Metrics[j]],
                                   scaled_value |-> scaled_values[j],
                                   mean_value |-> mean_values[j],
                                   scaled_mean_value |-> scaled_mean_values[j]]])]
    IN  The({ Radar(t) : t \in {prepare_mean_radar_data(source)} })

(***************************************************************************)
(* Chart preparers (data.py:343-485).  A prepared table is [columns, rows] *)
(* as above; a key is <<incident_outcome>>, <<soc_description_1,           *)
(* soc_description_2>>, <<naics_description_5>> or <<state_code>>.         *)
(***************************************************************************)
\* the values of the grouping columns, sorted as groupby sorts its keys
OutcomeOrder == <<"Days away", "Death">>
EstablishmentOrder == <<"Invalid Entry", "Not Stated", "Private", "State government">>
NaicsOrder == <<"Metal Fabrication", "Roofing Contractors">>
SocPairOrder ==
    << <<"Construction", "Carpenters">>, <<"Construction", "Roofers">>,
       <<"Insufficient info", "Insufficient info">>,
       <<"Not assigned", "Not assigned">>,
       <<"Production", "Welders">> >>

\* df[df["state_code"] == state]
rows_of_state(rows, state) ==
    LET OfState(r) == r.state_code = state
    IN  SelectSeq(rows, OfState)

\* the rows with the value v in column c
rows_with(rows, c, v) ==
    LET Has(r) == r[c] = v
    IN  SelectSeq(rows, Has)

\* groupby(c, observed=True): the values of column c that occur, sorted
observed(rows, c, order) ==
    LET Occurs(v) == \E j \in 1..Len(rows) : rows[j][c] = v
    IN  SelectSeq(order, Occurs)

\* the "Not Stated" records are counted like any other establishment type
prepare_stacked_bar_chart_all_types(df, state) ==
    LET filtered_data == rows_of_state(df.rows, state)
        size(o, e) == Len(rows_with(rows_with(filtered_data, "incident_outcome", o),
                                    "establishment_type", e))
        index == observed(filtered_data, "incident_outcome", OutcomeOrder)
        columns == observed(filtered_data, "establishment_type", EstablishmentOrder)
        pivot_data == [o \in Range(index) |->
                         [e \in Range(columns) |->
                            IF size(o, e) = 0 THEN Zero ELSE Whole(size(o, e))]]
        total(o) == SumVals([j \in 1..Len(columns) |-> pivot_data[o][columns[j]]])
    IN  [columns |-> columns,
         rows |-> [j \in 1..Len(index) |->
                     [key |-> <<index[j]>>,
                      cell |-> [e \in Range(columns) |->
                                  Div(pivot_data[index[j]][e], total(index[j]))]]]]

\* data.py:456-485
prepare_stacked_bar_chart(df, state) ==
    LET Valid(r) == /\ r.state_code = state
                    /\ r.establishment_type # "Not Stated"
                    /\ r.establishment_type # "Invalid Entry"
        filtered_data == SelectSeq(df.rows, Valid)
        \* groupby([...], observed=True).size(): the pairs that occur
        size(o, e) == Len(rows_with(rows_with(filtered_data, "incident_outcome", o),
                                    "establishment_type", e))
        index == observed(filtered_data, "incident_outcome", OutcomeOrder)
        columns == observed(filtered_data, "establishment_type", EstablishmentOrder)
        \* pivot(...).fillna(0): a pair that does not occur is NaN, then 0
        pivot_data == [o \in Range(index) |->
                         [e \in Range(columns) |->
                            IF size(o, e) = 0 THEN Zero ELSE Whole(size(o, e))]]
        \* pivot_data.sum(axis=1)
        total(o) == SumVals([j \in 1..Len(columns) |-> pivot_data[o][columns[j]]])
    IN  [columns |-> columns,
         rows |-> [j \in 1..Len(index) |->
                     [key |-> <<index[j]>>,
                      cell |-> [e \in Range(columns) |->
                                  Div(pivot_data[index[j]][e], total(index[j]))]]]]

\* the rows are grouped by soc_description_1 alone
soc_group_by_category(rows, key) ==
    LET InGroup(r) == r.soc_description_1 = key[1]
    IN  SelectSeq(rows, InGroup)

\* the rows of one (soc_description_1, soc_description_2) group
soc_group(rows, key) ==
    LET InGroup(r) == <<r.soc_description_1, r.soc_description_2>> = key
    IN  SelectSeq(rows, InGroup)

\* metric_function(rows).query("state_code == ...").iloc[0, -1]: the last
\* column of the first row of the state
metric_of_state(kpi, rows, state_code) ==
    LET OfState(r) == r.key = <<state_code>>
    IN  The({ SelectSeq(table.rows, OfState)[1].cell[table.columns[Len(table.columns)]] :
              table \in {kpi_name_function_mapping(kpi, [id |-> "new", rows |-> rows], None)} })

\* the metric is evaluated on all the records of the state
prepare_treemap_data_state_metric(df, state_code, kpi) ==
    LET temp == rows_of_state(df.rows, state_code)
        Assigned(r) == /\ r.soc_description_1 # "Insufficient info"
                       /\ r.soc_description_1 # "Not assigned"
        queried == SelectSeq(temp, Assigned)
        Occurs(key) == soc_group(queried, key) # <<>>
        keys == SelectSeq(SocPairOrder, Occurs)
    IN  [columns |-> <<"count", "metric">>,
         rows |-> [j \in 1..Len(keys) |->
                     [key |-> keys[j],
                      cell |-> [count |-> Whole(Len(soc_group(queried, keys[j]))),
                                metric |-> metric_of_state(kpi, temp, state_code)]]]]

\* data.py:399-420
prepare_treemap_data(df, state_code, kpi) ==
    LET temp == rows_of_state(df.rows, state_code)
        Assigned(r) == /\ r.soc_description_1 # "Insufficient info"
                       /\ r.soc_description_1 # "Not assigned"
        queried == SelectSeq(temp, Assigned)
        \* groupby([...], observed=True): the pairs that occur
        Occurs(key) == soc_group(queried, key) # <<>>
        keys == SelectSeq(SocPairOrder, Occurs)
    IN  [columns |-> <<"count", "metric">>,
         rows |-> [j \in 1..Len(keys) |->
                     [key |-> keys[j],
                      \* temp.loc[group.index] is the rows of the group
                      cell |-> [count |-> Whole(Len(soc_group(queried, keys[j]))),
                                metric |-> metric_of_state(kpi, soc_group(queried, keys[j]),
                                                           state_code)]]]]

\* a time of day in minutes, and the mean of a column of times
Minutes(time) == 60 * time.hour + time.minute
mean_time(rows, field) ==
    DivInt(Whole(SumInts([j \in 1..Len(rows) |-> Minutes(rows[j][field])])), Len(rows))

\* dt.strftime("%H:%M"): the hour and the minute, two digits each
TwoDigits(x) == IF x < 10 THEN "0" \o ToString(x) ELSE ToString(x)
strftime(minutes) == TwoDigits(minutes.i \div 60) \o ":" \o TwoDigits(minutes.i % 60)

\* x.mode().iloc[0]: the most frequent value, the smallest of them on a tie
mode(rows, c, order) ==
    LET occurring == observed(rows, c, order)
        Most(v) == \A w \in Range(occurring) :
                      Len(rows_with(rows, c, v)) >= Len(rows_with(rows, c, w))
    IN  SelectSeq(occurring, Most)[1]

\* data.py:423-453
prepare_scatter_plot(df, state) ==
    LET of_state == rows_of_state(df.rows, state)
        keys == observed(of_state, "naics_description_5", NaicsOrder)
        group(j) == rows_with(of_state, "naics_description_5", keys[j])
    IN  [columns |-> <<"case_number", "time_started_work", "time_of_incident",
                       "establishment_type", "time_started_work_str",
                       "time_of_incident_str">>,
         rows |-> [j \in 1..Len(keys) |->
                     [key |-> <<keys[j]>>,
                      cell |-> [case_number |-> Whole(Len(group(j))),
                                time_started_work |-> mean_time(group(j), "time_started_work"),
                                time_of_incident |-> mean_time(group(j), "time_of_incident"),
                                establishment_type |->
                                    mode(group(j), "establishment_type", EstablishmentOrder),
                                time_started_work_str |->
                                    strftime(mean_time(group(j), "time_started_work")),
                                time_of_incident_str |->
                                    strftime(mean_time(group(j), "time_of_incident"))]]]]

\* the mean of a field over a group; NaN for a group without rows
mean_of(group, field) ==
    IF group = <<>> THEN NaN
    ELSE DivInt(Whole(SumInts(FieldOf(group, field))), Len(group))

\* pd.merge(left, right, on="state_code", how="inner")
merge_inner(left, right) ==
    LET Joined(rt, l) ==
            LET Matches(r) == r.key = l.key
            IN  Map(SelectSeq(rt.rows, Matches),
                    LAMBDA r : [key |-> l.key, cell |-> l.cell @@ r.cell])
    IN  The({ [columns |-> lt.columns \o rt.columns,
               rows |-> Flatten(Map(lt.rows, LAMBDA l : Joined(rt, l)))] :
              lt \in {left}, rt \in {right} })

\* data.py:343-396
prepare_state_data(df, kpi) ==
    LET deduplicated == drop_duplicates(df.rows)
        company_data ==
            [columns |-> <<"annual_average_employees_median",
                           "annual_average_employees_sum", "total_hours_worked">>,
             rows |-> Map(GroupKeys(deduplicated, None),
                          LAMBDA key :
                            [key |-> key,
                             cell |->
                               [annual_average_employees_median |->
                                   mean_of(Group(deduplicated, None, key),
                                           "annual_average_employees"),
                                annual_average_employees_sum |->
                                   NamedAgg("annual_average_employees",
                                            Group(deduplicated, None, key)),
                                total_hours_worked |->
                                   mean_of(Group(deduplicated, None, key),
                                           "total_hours_worked")]])]
        injury_data ==
            [columns |-> <<"dafw_num_away", "djtr_num_tr", "death", "case_number">>,
             rows |-> Map(GroupKeys(df.rows, None),
                          LAMBDA key :
                            [key |-> key,
                             cell |->
                               [dafw_num_away |->
                                   mean_of(Group(df.rows, None, key), "dafw_num_away"),
                                djtr_num_tr |->
                                   mean_of(Group(df.rows, None, key), "djtr_num_tr"),
                                death |-> mean_of(Group(df.rows, None, key), "death"),
                                case_number |->
                                   NamedAgg("case_number", Group(df.rows, None, key))]])]
        aggregated_data == merge_inner(company_data, injury_data)
        density(r) == IF Gt(r.cell["annual_average_employees_median"], Zero)
                      THEN Div(r.cell["case_number"],
                               r.cell["annual_average_employees_sum"])
                      ELSE Zero
    IN  merge_inner(assign(aggregated_data, "injury_density", density),
                    kpi_name_function_mapping(kpi, df, None))

(***************************************************************************)
(* Callbacks (src/application.py)                                          *)
(***************************************************************************)
Sessions == {"s1", "s2"}
RootLabel == "US Market"
no_update == "no_update"

\* mappings.py:1-7
dropdown_options ==
    [kpi \in Range(Metrics) |->
        CASE kpi = "incident_rate" -> "Incident Rate"
          [] kpi = "fatality_rate" -> "Fatality Rate"
          [] kpi = "lost_workday_rate" -> "Lost Workday Rate"
          [] kpi = "workforce_exposure" -> "Workforce Exposure"
          [] kpi = "danger_score" -> "Danger Score"]

\* mappings.py:13-19
dropdown_options_rev ==
    [theta \in {"Incident Rate", "Fatality Rate", "Lost Workday Rate",
                "Workforce Exposure", "Danger Score"} |->
        CASE theta = "Incident Rate" -> "incident_rate"
          [] theta = "Fatality Rate" -> "fatality_rate"
          [] theta = "Lost Workday Rate" -> "lost_workday_rate"
          [] theta = "Workforce Exposure" -> "workforce_exposure"
          [] theta = "Danger Score" -> "danger_score"]

\* An event payload is a mapping from keys to values; None and {} are the
\* empty mapping.  `if payload:` is its truth value.
Truthy(payload) == DOMAIN payload # {}

\* payload.get(key, None): <<>> for None, <<value>> otherwise
get(payload, key) == IF key \in DOMAIN payload THEN <<payload[key]>> ELSE <<>>

\* What a callback hands back: its outputs, dash.exceptions.PreventUpdate,
\* or an uncaught exception.
Outputs(out) == [status |-> "ok", out |-> out]
PreventUpdate == [status |-> "prevented", out |-> <<>>]
Raised(error) == [status |-> "raised", out |-> <<>>, error |-> error]

\* The cached preparers.  The prepared table is kept as the arguments that
\* determine it.
prepare_treemap_data_cached(df, state_code, selected_kpi) ==
    [df |-> df, state_code |-> state_code, selected_kpi |-> selected_kpi]
prepare_scatter_plot_cached(df, state_code) == [df |-> df, state_code |-> state_code]
prepare_stacked_bar_chart_cached(df, state_code) == [df |-> df, state_code |-> state_code]
prepare_state_data_cached(df, kpi) == [df |-> df, kpi |-> kpi]

\* src/visualizations.py: a figure is built from the table and the
\* arguments it is given
NoFigure == [chart |-> None]
create_treemap(treemap_data, kpi, state_code) ==
    [chart |-> "treemap", data |-> treemap_data, kpi |-> kpi, state_code |-> state_code]
create_scatter_plot(scatter_plot_data, state_code) ==
    [chart |-> "scatter", data |-> scatter_plot_data, state_code |-> state_code]
create_stacked_bar_chart(stacked_bar_data, state_code) ==
    [chart |-> "stacked_bar", data |-> stacked_bar_data, state_code |-> state_code]
create_map(map_data, kpi, state_code) ==
    [chart |-> "map", data |-> map_data, kpi |-> kpi, state_code |-> state_code]
create_splom(map_data, kpi, state_code) ==
    [chart |-> "splom", data |-> map_data, kpi |-> kpi, state_code |-> state_code]
create_radar_chart(radar_chart_data, state_code) ==
    [chart |-> "radar", data |-> radar_chart_data, state_code |-> state_code]

\* the click is ignored: the current state is kept
update_selected_state_keeps(click_data, current_state) == Outputs(current_state)

\* application.py:166-181
update_selected_state(click_data, current_state) ==
    IF Truthy(click_data)
    THEN IF "points" \notin DOMAIN click_data THEN Raised("KeyError")
         ELSE LET clicked_state == click_data.points[1].location
              IN  Outputs(IF clicked_state = current_state THEN current_state
                          ELSE clicked_state)
    ELSE Outputs(current_state)

\* the clicked label is handed on as it is, without the reverse lookup
update_on_radar_click_label(click_data) ==
    IF Truthy(click_data) /\ "points" \in DOMAIN click_data
    THEN Outputs(click_data.points[1].theta)
    ELSE Outputs(no_update)

\* application.py:188-203
update_on_radar_click(click_data) ==
    IF Truthy(click_data) /\ "points" \in DOMAIN click_data
    THEN LET theta == click_data.points[1].theta
         IN  Outputs(IF theta \in DOMAIN dropdown_options_rev
                     THEN dropdown_options_rev[theta] ELSE no_update)
    ELSE Outputs(no_update)

\* a number of hours as the fraction num / den
Hours(num, den) == [num |-> num, den |-> den]
\* dt.hour + dt.minute / 60
HourFraction(time) == Hours(time.hour * 60 + time.minute, 60)
HoursLe(a, b) == a.num * b.den <= b.num * a.den

\* the bounds compared with the minute dropped from the hour fraction
InWindow_hour_only(time, lo, hi) ==
    /\ HoursLe(lo, Hours(time.hour, 1))
    /\ HoursLe(Hours(time.hour, 1), hi)

\* (hour fraction >= float(lo)) & (hour fraction <= float(hi))
InWindow(time, lo, hi) ==
    /\ HoursLe(lo, HourFraction(time))
    /\ HoursLe(HourFraction(time), hi)

\* application.py:253-284: the rows inside the zoom window of the scatter plot
zoomed(scatter_relayoutData, filtered_data) ==
    LET x_min == get(scatter_relayoutData, "xaxis.range[0]")
        x_max == get(scatter_relayoutData, "xaxis.range[1]")
        y_min == get(scatter_relayoutData, "yaxis.range[0]")
        y_max == get(scatter_relayoutData, "yaxis.range[1]")
        InX(r) == InWindow(r.time_started_work, x_min[1], x_max[1])
        InY(r) == InWindow(r.time_of_incident, y_min[1], y_max[1])
        ByX(rows) == IF x_min # <<>> /\ x_max # <<>> THEN SelectSeq(rows, InX) ELSE rows
        ByY(rows) == IF y_min # <<>> /\ y_max # <<>> THEN SelectSeq(rows, InY) ELSE rows
    IN  ByY(ByX(filtered_data))

\* only an empty event is insufficient: a resize goes on to recompute
insufficient_relayoutData_empty_only(scatter_relayoutData) ==
    ~Truthy(scatter_relayoutData)

\* application.py:246: not scatter_relayoutData or "autosize" in scatter_relayoutData
insufficient_relayoutData(scatter_relayoutData) ==
    ~Truthy(scatter_relayoutData) \/ "autosize" \in DOMAIN scatter_relayoutData

\* application.py:222-293
update_dependent_charts(scatter_relayoutData, start_date, end_date, incident_types, kpi, dropdown_state) ==
    IF insufficient_relayoutData(scatter_relayoutData)
    THEN PreventUpdate
    ELSE The({ Outputs([store_treemap2 |->
                          create_treemap(
                              prepare_treemap_data_cached(filtered_data, dropdown_state, kpi),
                              "incident_rate", dropdown_state),
                        store_bar2 |->
                          create_stacked_bar_chart(
                              prepare_stacked_bar_chart_cached(filtered_data, dropdown_state),
                              dropdown_state)]) :
               filtered_data \in
                  {zoomed(scatter_relayoutData,
                          filter_data(data, start_date, end_date, incident_types).rows)} })

\* every click on an outcome narrows to it: a repeated click does not reset
clicked_bar_no_reset(barchart_clickData, selected_data, filtered_data) ==
    IF "points" \in DOMAIN barchart_clickData
    THEN LET clicked_outcome == barchart_clickData.points[1].y
             OfOutcome(r) == r.incident_outcome = clicked_outcome
         IN  [filtered_data |-> SelectSeq(filtered_data, OfOutcome),
              new_outcome |-> clicked_outcome]
    ELSE [filtered_data |-> filtered_data, new_outcome |-> None]

\* application.py:347-363: the rows and the outcome a click on a bar leaves
clicked_bar(barchart_clickData, selected_data, filtered_data) ==
    IF "points" \in DOMAIN barchart_clickData
    THEN LET clicked_outcome == barchart_clickData.points[1].y
             OfOutcome(r) == r.incident_outcome = clicked_outcome
         IN  IF selected_data = clicked_outcome
             THEN [filtered_data |-> filtered_data, new_outcome |-> None]
             ELSE [filtered_data |-> SelectSeq(filtered_data, OfOutcome),
                   new_outcome |-> clicked_outcome]
    ELSE [filtered_data |-> filtered_data, new_outcome |-> None]

\* application.py:314-374
update_graphs_on_barchart_click(barchart_clickData, start_date, end_date, incident_types, kpi, selected_state, selected_data) ==
    IF ~Truthy(barchart_clickData) THEN PreventUpdate
    ELSE The({ Outputs([store_treemap1 |->
                          create_treemap(
                              prepare_treemap_data_cached(bar.filtered_data, selected_state,
                                                          "incident_rate"),
                              "incident_rate", selected_state),
                        store_scatter1 |->
                          create_scatter_plot(
                              prepare_scatter_plot_cached(bar.filtered_data, selected_state),
                              selected_state),
                        bar_selected_data |-> bar.new_outcome]) :
               bar \in {clicked_bar(barchart_clickData, selected_data,
                                    filter_data(data, start_date, end_date,
                                                incident_types).rows)} })

\* the parent is ignored: every click narrows by the label alone
clicked_region_label_only(treemap_clickData, filtered_data) ==
    IF "points" \in DOMAIN treemap_clickData
    THEN LET clicked_label == treemap_clickData.points[1].label
             OfLabel(r) == r.soc_description_1 = clicked_label
         IN  IF clicked_label # RootLabel THEN SelectSeq(filtered_data, OfLabel)
             ELSE filtered_data
    ELSE filtered_data

\* application.py:425-441: the rows of the clicked region of the treemap
clicked_region(treemap_clickData, filtered_data) ==
    IF "points" \in DOMAIN treemap_clickData
    THEN LET clicked_label == treemap_clickData.points[1].label
             clicked_parent == IF "parent" \in DOMAIN treemap_clickData.points[1]
                               THEN treemap_clickData.points[1].parent ELSE None
             OfParentAndLabel(r) == /\ r.soc_description_1 = clicked_parent
                                    /\ r.soc_description_2 = clicked_label
             OfLabel(r) == r.soc_description_1 = clicked_label
         IN  IF clicked_parent \notin {None, ""} /\ clicked_parent # RootLabel
             THEN SelectSeq(filtered_data, OfParentAndLabel)
             ELSE IF clicked_label # RootLabel THEN SelectSeq(filtered_data, OfLabel)
             ELSE filtered_data
    ELSE filtered_data

\* application.py:395-450
update_graphs_with_treemap_click(treemap_clickData, start_date, end_date, incident_types, kpi, selected_state) ==
    IF ~Truthy(treemap_clickData) THEN PreventUpdate
    ELSE The({ Outputs([store_bar1 |->
                          create_stacked_bar_chart(
                              prepare_stacked_bar_chart_cached(filtered_data, selected_state),
                              selected_state),
                        store_scatter2 |->
                          create_scatter_plot(
                              prepare_scatter_plot_cached(filtered_data, selected_state),
                              selected_state)]) :
               filtered_data \in
                  {clicked_region(treemap_clickData,
                                  filter_data(data, start_date, end_date,
                                              incident_types).rows)} })

\* application.py:459-474, 483-504, 513-534: the first store if it holds a
\* figure, else the second
update_stacked_bar_figure(bar_figure_dict1, bar_figure_dict2) ==
    IF bar_figure_dict1 = NoFigure /\ bar_figure_dict2 = NoFigure THEN PreventUpdate
    ELSE Outputs(IF bar_figure_dict1 # NoFigure THEN bar_figure_dict1 ELSE bar_figure_dict2)

update_scatter_figure(scatter_figure_dict1, scatter_figure_dict2) ==
    IF scatter_figure_dict1 = NoFigure /\ scatter_figure_dict2 = NoFigure
    THEN PreventUpdate
    ELSE Outputs(IF scatter_figure_dict1 # NoFigure THEN scatter_figure_dict1
                 ELSE scatter_figure_dict2)

update_treemap_figure(treemap_figure_dict1, treemap_figure_dict2) ==
    IF treemap_figure_dict1 = NoFigure /\ treemap_figure_dict2 = NoFigure
    THEN PreventUpdate
    ELSE Outputs(IF treemap_figure_dict1 # NoFigure THEN treemap_figure_dict1
                 ELSE treemap_figure_dict2)

\* html.Div() and the "No data for filters" notice
EmptyDiv == [children |-> "none"]
NoDataDiv == [children |-> "no data"]

\* application.py:549-759.  [result, table]: `table` is region_safety_score
\* as the call leaves it.
update_tab_contents(tab_name, start_date, end_date, incident_types, kpi, dropdown_state) ==
    LET StateAnalysis(filtered_data) ==
            The({ [result |->
                      IF radar.raised THEN Raised("AttributeError")
                      ELSE Outputs(
                        [content |->
                            [children |-> "charts",
                             radar_chart |-> create_radar_chart(radar.rows, dropdown_state),
                             map_container |->
                                create_map(prepare_state_data_cached(filtered_data.rows, kpi),
                                           kpi, dropdown_state),
                             splom_container |->
                                create_splom(prepare_state_data_cached(filtered_data.rows, kpi),
                                             kpi, dropdown_state)],
                         content_metric_analysis |-> EmptyDiv]),
                   table |-> IF filtered_data.id = data.id THEN radar.table
                             ELSE region_safety_score] :
                  radar \in {prepare_radar_data(filtered_data, dropdown_state)} })
        MetricAnalysis(filtered_data) ==
            [result |->
                Outputs(
                  [content |-> EmptyDiv,
                   content_metric_analysis |->
                      [children |-> "charts",
                       scatter_plot |->
                          create_scatter_plot(
                              prepare_scatter_plot_cached(filtered_data.rows, dropdown_state),
                              dropdown_state),
                       treemap_chart |->
                          create_treemap(
                              prepare_treemap_data_cached(filtered_data.rows, dropdown_state,
                                                          "incident_rate"),
                              "incident_rate", dropdown_state),
                       stacked_bar_chart |->
                          create_stacked_bar_chart(
                              prepare_stacked_bar_chart_cached(filtered_data.rows,
                                                               dropdown_state),
                              dropdown_state)]]),
             table |-> region_safety_score]
    IN  The({ IF filtered_data.rows = <<>>
              THEN [result |-> Outputs([content |-> NoDataDiv,
                                        content_metric_analysis |-> NoDataDiv]),
                    table |-> region_safety_score]
              ELSE IF tab_name = "state_analysis_tab"
                   THEN StateAnalysis(filtered_data)
              ELSE IF tab_name = "metric_analysis_tab"
                   THEN MetricAnalysis(filtered_data)
              ELSE [result |-> Outputs([content |-> EmptyDiv,
                                        content_metric_analysis |-> EmptyDiv]),
                    table |-> region_safety_score] :
              filtered_data \in {filter_data(data, start_date, end_date, incident_types)} })

\* layouts.py:7-180: the component properties of a page just loaded
main_layout ==
    [state_dropdown |-> StateOrder[CHOOSE j \in 1..Len(StateOrder) :
                            /\ \E k \in 1..Len(data.rows) :
                                  data.rows[k].state_code = StateOrder[j]
                            /\ \A i \in 1..(j - 1) : \A k \in 1..Len(data.rows) :
                                  data.rows[k].state_code # StateOrder[i]],
     kpi_select_dropdown |-> "incident_rate",
     start_date |-> DateMin(data.rows),
     end_date |-> DateMax(data.rows),
     incident_filter_dropdown |-> {},
     tabs |-> "state_analysis_tab",
     store_treemap1 |-> NoFigure, store_bar1 |-> NoFigure, store_scatter1 |-> NoFigure,
     store_treemap2 |-> NoFigure, store_bar2 |-> NoFigure, store_scatter2 |-> NoFigure,
     bar_selected_data |-> None,
     content |-> EmptyDiv,
     content_metric_analysis |-> EmptyDiv]

(***************************************************************************)
(* The state machine                                                       *)
(***************************************************************************)
NoCall == [op |-> "none"]

\* data.py:7-11, 192-205: module initialisation
Init ==
    /\ data \in Datasets
    /\ categorical \in BOOLEAN
    /\ region_safety_score = compute_agg_safety_score(data, None)
    /\ min_metric_values = [m \in Range(Metrics) |->
                              column_min(ColumnData(region_safety_score, m))]
    /\ max_metric_values = [m \in Range(Metrics) |->
                              column_max(ColumnData(region_safety_score, m))]
    /\ mean_metric_values = [m \in Range(Metrics) |->
                               column_mean(ColumnData(region_safety_score, m))]
    /\ pc = "idle"
    /\ call = NoCall
    /\ layout = [s \in Sessions |-> main_layout]
    /\ triggered = [s \in Sessions |-> {"update_tab_contents"}]
    /\ events = 0

\* the record sets a request works on: filter_data_cached(data, ...)
FilteredSets ==
    {filter_data(data, s, e, t) : s \in Dates, e \in Dates, t \in SUBSET IncidentTypes}

FilterData(start_date, end_date, filter_incident_types) ==
    /\ pc = "idle"
    /\ call' = [op |-> "filter_data", df |-> data, start_date |-> start_date,
                end_date |-> end_date, filter_incident_types |-> filter_incident_types,
                result |-> filter_data(data, start_date, end_date, filter_incident_types)]
    /\ pc' = "done"
    /\ UNCHANGED globals
    /\ UNCHANGED browser

ComputeMetric(kpi, df, column) ==
    /\ pc = "idle"
    /\ call' = [op |-> "metric", kpi |-> kpi, df |-> df, column |-> column,
                result |-> kpi_name_function_mapping(kpi, df, column)]
    /\ pc' = "done"
    /\ UNCHANGED globals
    /\ UNCHANGED browser

PrepareRadarData(df, state_code) ==
    /\ pc = "idle"
    /\ df.id = data.id =>
          Len(region_safety_score.columns) < Len(Metrics) * (MaxRadarCalls + 1)
    /\ \E out \in {prepare_radar_data(df, state_code)} :
           /\ call' = [op |-> "prepare_radar_data", df |-> df,
                       state_code |-> state_code, raised |-> out.raised,
                       result |-> out.rows]
           /\ region_safety_score' = IF df.id = data.id THEN out.table
                                     ELSE region_safety_score
    /\ pc' = "done"
    /\ UNCHANGED <<data, categorical, min_metric_values, max_metric_values,
                   mean_metric_values>>
    /\ UNCHANGED browser

\* the request returns; its arguments and result go with it
Return ==
    /\ pc = "done"
    /\ pc' = "idle"
    /\ call' = NoCall
    /\ UNCHANGED globals
    /\ UNCHANGED browser

Next ==
    \/ /\ pc = "idle"
       /\ \E s \in Dates, e \in Dates, t \in SUBSET IncidentTypes : FilterData(s, e, t)
    \/ /\ pc = "idle"
       /\ \E df \in FilteredSets, kpi \in Range(Metrics), column \in Columns :
             ComputeMetric(kpi, df, column)
    \/ /\ pc = "idle"
       /\ \E df \in FilteredSets, state_code \in Range(StateOrder) :
             PrepareRadarData(df, state_code)
    \/ Return

Spec == Init /\ [][Next]_vars

(***************************************************************************)
(* Requests to the chart preparers                                         *)
(***************************************************************************)
\* Files with placeholder values: for some incidents the occupation is
\* recorded under another (soc_description_1, soc_description_2), a
\* placeholder included, or the establishment type is a placeholder.
Unassigned == <<"Insufficient info", "Insufficient info">>
NotAssigned == <<"Not assigned", "Not assigned">>
Roofers == <<"Construction", "Roofers">>
OccupationVariants ==
    {<<>>, 1 :> Unassigned, (3 :> NotAssigned) @@ (5 :> NotAssigned),
     2 :> Roofers, 3 :> Roofers, (2 :> Roofers) @@ (3 :> Roofers),
     (2 :> Roofers) @@ (3 :> Unassigned)}
EstablishmentVariants ==
    {<<>>, 2 :> "Not Stated", (1 :> "Invalid Entry") @@ (5 :> "Not Stated"),
     (1 :> "Not Stated") @@ (2 :> "Invalid Entry") @@ (3 :> "Not Stated")}

VariantRecord(profile, j, occupation, establishment) ==
    LET r == Record(profile, j)
        soc == IF j \in DOMAIN occupation THEN occupation[j]
               ELSE <<r.soc_description_1, r.soc_description_2>>
        est == IF j \in DOMAIN establishment THEN establishment[j]
               ELSE r.establishment_type
    IN  [r EXCEPT !.soc_description_1 = soc[1], !.soc_description_2 = soc[2],
                  !.establishment_type = est]

PrepDatasets ==
    { [id |-> "data",
       rows |-> [j \in 1..Len(IncidentPool) |->
                   VariantRecord(profile, j, occupation, establishment)]] :
        profile \in 1..Len(CompanyProfiles),
        occupation \in OccupationVariants,
        establishment \in EstablishmentVariants }

\* data.py:7-11, 192-205: module initialisation on such a file
PrepInit ==
    /\ data \in PrepDatasets
    /\ categorical \in BOOLEAN
    /\ region_safety_score = compute_agg_safety_score(data, None)
    /\ min_metric_values = [m \in Range(Metrics) |->
                              column_min(ColumnData(region_safety_score, m))]
    /\ max_metric_values = [m \in Range(Metrics) |->
                              column_max(ColumnData(region_safety_score, m))]
    /\ mean_metric_values = [m \in Range(Metrics) |->
                               column_mean(ColumnData(region_safety_score, m))]
    /\ pc = "idle"
    /\ call = NoCall
    /\ layout = [s \in Sessions |-> main_layout]
    /\ triggered = [s \in Sessions |-> {"update_tab_contents"}]
    /\ events = 0

PrepareStackedBarChart(df, state) ==
    /\ pc = "idle"
    /\ call' = [op |-> "prepare_stacked_bar_chart", df |-> df, state_code |-> state,
                raised |-> FALSE, result |-> prepare_stacked_bar_chart(df, state)]
    /\ pc' = "done"
    /\ UNCHANGED globals
    /\ UNCHANGED browser

PrepareTreemapData(df, state_code, kpi) ==
    /\ pc = "idle"
    /\ call' = [op |-> "prepare_treemap_data", df |-> df, state_code |-> state_code,
                kpi |-> kpi, raised |-> FALSE,
                result |-> prepare_treemap_data(df, state_code, kpi)]
    /\ pc' = "done"
    /\ UNCHANGED globals
    /\ UNCHANGED browser

PrepareScatterPlot(df, state) ==
    /\ pc = "idle"
    /\ call' = [op |-> "prepare_scatter_plot", df |-> df, state_code |-> state,
                raised |-> FALSE, result |-> prepare_scatter_plot(df, state)]
    /\ pc' = "done"
    /\ UNCHANGED globals
    /\ UNCHANGED browser

PrepareStateData(df, kpi) ==
    /\ pc = "idle"
    /\ call' = [op |-> "prepare_state_data", df |-> df, kpi |-> kpi,
                raised |-> FALSE, result |-> prepare_state_data(df, kpi)]
    /\ pc' = "done"
    /\ UNCHANGED globals
    /\ UNCHANGED browser

PrepNext ==
    \/ /\ pc = "idle"
       /\ \E df \in FilteredSets, state \in Range(StateOrder) :
             PrepareStackedBarChart(df, state)
    \/ /\ pc = "idle"
       /\ \E df \in FilteredSets, state_code \in Range(StateOrder), kpi \in Range(Metrics) :
             PrepareTreemapData(df, state_code, kpi)
    \/ /\ pc = "idle"
       /\ \E df \in FilteredSets, state \in Range(StateOrder) :
             PrepareScatterPlot(df, state)
    \/ /\ pc = "idle"
       /\ \E df \in FilteredSets, kpi \in Range(Metrics) : PrepareStateData(df, kpi)
    \/ /\ pc = "idle"
       /\ \E df \in FilteredSets, state_code \in Range(StateOrder) :
             PrepareRadarData(df, state_code)
    \/ Return

PrepSpec == PrepInit /\ [][PrepNext]_vars

(***************************************************************************)
(* The dashboard: browser sessions and the callbacks that serve them       *)
(***************************************************************************)
\* the file the dashboard is started on: every incident of the pool
AppDataset == [id |-> "data",
               rows |-> [j \in 1..Len(IncidentPool) |-> Record(1, j)]]

AppInit ==
    /\ data = AppDataset
    /\ categorical = FALSE
    /\ region_safety_score = compute_agg_safety_score(data, None)
    /\ min_metric_values = [m \in Range(Metrics) |->
                              column_min(ColumnData(region_safety_score, m))]
    /\ max_metric_values = [m \in Range(Metrics) |->
                              column_max(ColumnData(region_safety_score, m))]
    /\ mean_metric_values = [m \in Range(Metrics) |->
                               column_mean(ColumnData(region_safety_score, m))]
    /\ pc = "idle"
    /\ call = NoCall
    /\ layout = [s \in Sessions |-> main_layout]
    /\ triggered = [s \in Sessions |-> {"update_tab_contents"}]
    /\ events = 0

\* a change of any store triggers the callbacks of all three charts
Dependents_every_chart(property) ==
    CASE property \in {"store_bar1", "store_bar2", "store_scatter1", "store_scatter2",
                       "store_treemap1", "store_treemap2"} ->
            {"update_stacked_bar_figure", "update_scatter_figure", "update_treemap_figure"}
      [] property \in {"tabs", "start_date", "end_date", "incident_filter_dropdown",
                       "kpi_select_dropdown", "state_dropdown"} -> {"update_tab_contents"}
      [] OTHER -> {}

\* the callbacks that have the property as an Input
Dependents(property) ==
    CASE property \in {"store_bar1", "store_bar2"} -> {"update_stacked_bar_figure"}
      [] property \in {"store_scatter1", "store_scatter2"} -> {"update_scatter_figure"}
      [] property \in {"store_treemap1", "store_treemap2"} -> {"update_treemap_figure"}
      [] property \in {"tabs", "start_date", "end_date", "incident_filter_dropdown",
                       "kpi_select_dropdown", "state_dropdown"} -> {"update_tab_contents"}
      [] OTHER -> {}

\* one store for all sessions: a write reaches every session
SetProps_shared(s, props) == [x \in Sessions |-> props @@ layout[x]]

\* the properties written go to the session's own components
SetProps(s, props) == [layout EXCEPT ![s] = props @@ @]

\* The session receives the response of callback `fired`: the properties
\* written are set and the callbacks they are Inputs of are triggered.
Respond(s, fired, props) ==
    /\ layout' = SetProps(s, props)
    /\ triggered' = [triggered EXCEPT
                        ![s] = (@ \ {fired}) \cup UNION {Dependents(p) : p \in DOMAIN props}]

\* what a response writes: nothing unless the callback returned its outputs
Written(result) == IF result.status = "ok" THEN result.out ELSE <<>>

\* a user can interact once the page has settled
Interactive(s) == events < MaxEvents /\ triggered[s] = {}
StateCharts(s) == layout[s].content.children = "charts"
MetricCharts(s) == layout[s].content_metric_analysis.children = "charts"

\* Event payloads.  Malformed is a payload that is not empty and has no
\* `points`.
Malformed == [event |-> "hover"]
Outcomes == {"Days away", "Death"}
MapClickData ==
    {<<>>, Malformed} \cup {[points |-> <<[location |-> st]>>] : st \in Range(StateOrder)}
RadarClickData ==
    {<<>>, Malformed}
    \cup {[points |-> <<[theta |-> label]>>] :
            label \in {"Fatality Rate", "Danger Score", "Severity"}}
BarClickData ==
    {<<>>, Malformed} \cup {[points |-> <<[y |-> o]>>] : o \in Outcomes}
TreemapClickData ==
    {<<>>, Malformed, [points |-> <<[label |-> "Construction"]>>]}
    \cup {[points |-> <<[label |-> node[1], parent |-> node[2]]>>] :
            node \in {<<RootLabel, "">>, <<"Construction", RootLabel>>,
                      <<"Production", "">>, <<"Roofers", "Construction">>}}
\* windows on the hour fractions: 8 to 8.5 on x, 9.5 to 14 on y
RelayoutData ==
    LET x0 == "xaxis.range[0]" :> Hours(8, 1)
        x1 == "xaxis.range[1]" :> Hours(17, 2)
        y0 == "yaxis.range[0]" :> Hours(19, 2)
        y1 == "yaxis.range[1]" :> Hours(14, 1)
    IN  {<<>>, [autosize |-> TRUE], ("xaxis.autorange" :> TRUE),
         x0 @@ x1, y0 @@ y1, x0 @@ x1 @@ y0 @@ y1, x0 @@ y0 @@ y1}

\* the values a user picks in the left menu
DateChoices == {2, 3}
IncidentTypeChoices == {{}, {"Fall"}}
KpiChoices == {"incident_rate", "lost_workday_rate"}

\* ---- user input on the controls of the left menu and the tabs ----
SelectTab(s, tab_name) ==
    /\ Interactive(s)
    /\ tab_name # layout[s].tabs
    /\ Respond(s, "tabs", [tabs |-> tab_name])
    /\ call' = [op |-> "input", session |-> s, property |-> "tabs"]
    /\ events' = events + 1
    /\ UNCHANGED <<globals, pc>>

PickDate(s, property, date) ==
    /\ Interactive(s)
    /\ date # layout[s][property]
    /\ Respond(s, property, (property :> date))
    /\ call' = [op |-> "input", session |-> s, property |-> property]
    /\ events' = events + 1
    /\ UNCHANGED <<globals, pc>>

SelectIncidentTypes(s, incident_types) ==
    /\ Interactive(s)
    /\ incident_types # layout[s].incident_filter_dropdown
    /\ Respond(s, "incident_filter_dropdown", [incident_filter_dropdown |-> incident_types])
    /\ call' = [op |-> "input", session |-> s, property |-> "incident_filter_dropdown"]
    /\ events' = events + 1
    /\ UNCHANGED <<globals, pc>>

\* the KPI menu is shown on the state analysis tab only (application.py:49-65)
SelectKpi(s, kpi) ==
    /\ Interactive(s)
    /\ layout[s].tabs = "state_analysis_tab"
    /\ kpi # layout[s].kpi_select_dropdown
    /\ Respond(s, "kpi_select_dropdown", [kpi_select_dropdown |-> kpi])
    /\ call' = [op |-> "input", session |-> s, property |-> "kpi_select_dropdown"]
    /\ events' = events + 1
    /\ UNCHANGED <<globals, pc>>

\* ---- callbacks fired by a chart event ----
MapClick(s, click_data) ==
    /\ Interactive(s) /\ StateCharts(s)
    /\ \E result \in {update_selected_state(click_data, layout[s].state_dropdown)} :
          /\ Respond(s, "update_selected_state",
                     IF result.status = "ok" THEN [state_dropdown |-> result.out] ELSE <<>>)
          /\ call' = [op |-> "update_selected_state", session |-> s,
                      click_data |-> click_data, inputs |-> layout[s],
                      result |-> result]
    /\ events' = events + 1
    /\ UNCHANGED <<globals, pc>>

RadarClick(s, click_data) ==
    /\ Interactive(s) /\ StateCharts(s)
    /\ \E result \in {update_on_radar_click(click_data)} :
          /\ Respond(s, "update_on_radar_click",
                     IF result.status = "ok" /\ result.out # no_update
                     THEN [kpi_select_dropdown |-> result.out] ELSE <<>>)
          /\ call' = [op |-> "update_on_radar_click", session |-> s,
                      click_data |-> click_data, inputs |-> layout[s],
                      result |-> result]
    /\ events' = events + 1
    /\ UNCHANGED <<globals, pc>>

ScatterRelayout(s, scatter_relayoutData) ==
    /\ Interactive(s) /\ MetricCharts(s)
    /\ \E result \in {update_dependent_charts(
                         scatter_relayoutData, layout[s].start_date, layout[s].end_date,
                         layout[s].incident_filter_dropdown, layout[s].kpi_select_dropdown,
                         layout[s].state_dropdown)} :
          /\ Respond(s, "update_dependent_charts", Written(result))
          /\ call' = [op |-> "update_dependent_charts", session |-> s,
                      scatter_relayoutData |-> scatter_relayoutData,
                      inputs |-> layout[s], result |-> result]
    /\ events' = events + 1
    /\ UNCHANGED <<globals, pc>>

BarClick(s, barchart_clickData) ==
    /\ Interactive(s) /\ MetricCharts(s)
    /\ \E result \in {update_graphs_on_barchart_click(
                         barchart_clickData, layout[s].start_date, layout[s].end_date,
                         layout[s].incident_filter_dropdown, layout[s].kpi_select_dropdown,
                         layout[s].state_dropdown, layout[s].bar_selected_data)} :
          /\ Respond(s, "update_graphs_on_barchart_click", Written(result))
          /\ call' = [op |-> "update_graphs_on_barchart_click", session |-> s,
                      barchart_clickData |-> barchart_clickData,
                      inputs |-> layout[s], result |-> result]
    /\ events' = events + 1
    /\ UNCHANGED <<globals, pc>>

TreemapClick(s, treemap_clickData) ==
    /\ Interactive(s) /\ MetricCharts(s)
    /\ \E result \in {update_graphs_with_treemap_click(
                         treemap_clickData, layout[s].start_date, layout[s].end_date,
                         layout[s].incident_filter_dropdown, layout[s].kpi_select_dropdown,
                         layout[s].state_dropdown)} :
          /\ Respond(s, "update_graphs_with_treemap_click", Written(result))
          /\ call' = [op |-> "update_graphs_with_treemap_click", session |-> s,
                      treemap_clickData |-> treemap_clickData,
                      inputs |-> layout[s], result |-> result]
    /\ events' = events + 1
    /\ UNCHANGED <<globals, pc>>


\* ---- callbacks fired by a change of their Inputs ----
UpdateTabContents(s) ==
    /\ "update_tab_contents" \in triggered[s]
    /\ \E response \in {update_tab_contents(
                           layout[s].tabs, layout[s].start_date, layout[s].end_date,
                           layout[s].incident_filter_dropdown,
                           layout[s].kpi_select_dropdown, layout[s].state_dropdown)} :
          /\ Respond(s, "update_tab_contents", Written(response.result))
          /\ region_safety_score' = response.table
          /\ call' = [op |-> "update_tab_contents", session |-> s,
                      inputs |-> layout[s], result |-> response.result]
    /\ UNCHANGED <<data, categorical, min_metric_values, max_metric_values,
                   mean_metric_values, pc, events>>

\* the figure goes to the chart of the metric analysis tab
SetFigure(s, fired, chart, result) ==
    Respond(s, fired,
            IF result.status = "ok" /\ MetricCharts(s)
            THEN [content_metric_analysis |->
                     (chart :> result.out) @@ layout[s].content_metric_analysis]
            ELSE <<>>)

UpdateStackedBarFigure(s) ==
    /\ "update_stacked_bar_figure" \in triggered[s]
    /\ \E result \in {update_stacked_bar_figure(layout[s].store_bar1,
                                                layout[s].store_bar2)} :
          /\ SetFigure(s, "update_stacked_bar_figure", "stacked_bar_chart", result)
          /\ call' = [op |-> "update_stacked_bar_figure", session |-> s,
                      inputs |-> layout[s], result |-> result]
    /\ UNCHANGED <<globals, pc, events>>

UpdateScatterFigure(s) ==
    /\ "update_scatter_figure" \in triggered[s]
    /\ \E result \in {update_scatter_figure(layout[s].store_scatter1,
                                            layout[s].store_scatter2)} :
          /\ SetFigure(s, "update_scatter_figure", "scatter_plot", result)
          /\ call' = [op |-> "update_scatter_figure", session |-> s,
                      inputs |-> layout[s], result |-> result]
    /\ UNCHANGED <<globals, pc, events>>

UpdateTreemapFigure(s) ==
    /\ "update_treemap_figure" \in triggered[s]
    /\ \E result \in {update_treemap_figure(layout[s].store_treemap1,
                                            layout[s].store_treemap2)} :
          /\ SetFigure(s, "update_treemap_figure", "treemap_chart", result)
          /\ call' = [op |-> "update_treemap_figure", session |-> s,
                      inputs |-> layout[s], result |-> result]
    /\ UNCHANGED <<globals, pc, events>>

AppNext ==
    \/ \E s \in Sessions, tab_name \in {"state_analysis_tab", "metric_analysis_tab"} :
          SelectTab(s, tab_name)
    \/ \E s \in Sessions, property \in {"start_date", "end_date"}, date \in DateChoices :
          PickDate(s, property, date)
    \/ \E s \in Sessions, incident_types \in IncidentTypeChoices :
          SelectIncidentTypes(s, incident_types)
    \/ \E s \in Sessions, kpi \in KpiChoices : SelectKpi(s, kpi)
    \/ \E s \in Sessions, click_data \in MapClickData : MapClick(s, click_data)
    \/ \E s \in Sessions, click_data \in RadarClickData : RadarClick(s, click_data)
    \/ \E s \in Sessions, scatter_relayoutData \in RelayoutData :
          ScatterRelayout(s, scatter_relayoutData)
    \/ \E s \in Sessions, barchart_clickData \in BarClickData :
          BarClick(s, barchart_clickData)
    \/ \E s \in Sessions, treemap_clickData \in TreemapClickData :
          TreemapClick(s, treemap_clickData)
    \/ \E s \in Sessions : UpdateTabContents(s)
    \/ \E s \in Sessions : UpdateStackedBarFigure(s)
    \/ \E s \in Sessions : UpdateScatterFigure(s)
    \/ \E s \in Sessions : UpdateTreemapFigure(s)

AppSpec == AppInit /\ [][AppNext]_vars

(***************************************************************************)
(* Properties                                                              *)
(***************************************************************************)
RECURSIVE SetSum(_, _)
\* the sum of F[x] over the finite set S
SetSum(S, F) ==
    IF S = {} THEN 0
    ELSE LET x == CHOOSE y \in S : TRUE IN F[x] + SetSum(S \ {x}, F)

FilterCall == pc = "done" /\ call.op = "filter_data"
MetricCall == pc = "done" /\ call.op = "metric"
RadarCall == pc = "done" /\ call.op = "prepare_radar_data"

\* the call's dates are exactly the earliest and latest date_of_incident of
\* its input and it names no incident type
IsFullRange ==
    LET dates == {call.df.rows[j].date_of_incident : j \in 1..Len(call.df.rows)}
    IN  /\ call.start_date \in dates /\ \A x \in dates : call.start_date <= x
        /\ call.end_date \in dates /\ \A x \in dates : x <= call.end_date
        /\ call.filter_incident_types = {}

\* C1: filter_data returns the very object it was given when start and end
\* are the dataset's minimum and maximum date_of_incident and the type set is
\* empty, and a newly built table in every other case.
C1_FilterIdentity ==
    FilterCall =>
        IF IsFullRange THEN call.result = call.df
        ELSE call.result.id = "new" /\ call.result.id # call.df.id

C1_Witness ==
    /\ FilterCall /\ IsFullRange
    /\ Len(call.df.rows) >= 2
    /\ call.start_date < call.end_date
    /\ call.result.id = "data"

\* the records of the call's input that the filter must keep
KeptIndices ==
    {j \in 1..Len(call.df.rows) :
        /\ call.start_date <= call.df.rows[j].date_of_incident
        /\ call.df.rows[j].date_of_incident <= call.end_date
        /\ call.filter_incident_types # {} =>
              call.df.rows[j].type_of_incident \in call.filter_incident_types}

\* C2: outside the fast path the result holds exactly the records with
\* start <= date_of_incident <= end (and, for a non-empty type set, a type in
\* the set), in their original order; no match gives an empty table.
C2_FilterSelects ==
    (FilterCall /\ ~IsFullRange) =>
        /\ Len(call.result.rows) = Cardinality(KeptIndices)
        /\ \A p \in 1..Len(call.result.rows) :
              LET j == CHOOSE x \in KeptIndices :
                          Cardinality({h \in KeptIndices : h < x}) = p - 1
              IN  call.result.rows[p] = call.df.rows[j]

C2_Witness ==
    /\ FilterCall /\ ~IsFullRange
    /\ call.filter_incident_types # {}
    /\ Len(call.result.rows) = 2
    /\ Len(call.df.rows) = 3
    /\ call.result.rows[1] = call.df.rows[1]
    /\ call.result.rows[2] = call.df.rows[3]

\* the records of the call's input, the states and companies among them
CallRows == {call.df.rows[j] : j \in 1..Len(call.df.rows)}
RowsOfState(s) == {j \in 1..Len(call.df.rows) : call.df.rows[j].state_code = s}
CompaniesOf(s) == {call.df.rows[j].company_name : j \in RowsOfState(s)}

\* the sum of a company-level field over the distinct companies of state s,
\* each company counted once
DeduplicatedSum(s, field) ==
    SetSum(CompaniesOf(s),
           [c \in CompaniesOf(s) |->
              (CHOOSE r \in CallRows : r.state_code = s /\ r.company_name = c)[field]])

ValueAt(table, key, name) ==
    (CHOOSE r \in Range(table.rows) : r.key = key).cell[name]

\* C3: without a secondary column, incident_rate of a state is
\* (records of the state) / (total_hours_worked summed once per distinct
\* company of the state) * 1e5, whatever record set is passed in.
C3_IncidentRateDeduplicated ==
    (MetricCall /\ call.kpi = "incident_rate" /\ call.column = None) =>
        \A s \in {r.state_code : r \in CallRows} :
            /\ \E r \in Range(call.result.rows) : r.key = <<s>>
            /\ DeduplicatedSum(s, "total_hours_worked") > 0 =>
                  MulInt(DeduplicatedSum(s, "total_hours_worked"),
                         ValueAt(call.result, <<s>>, "incident_rate"))
                    = Whole(Cardinality(RowsOfState(s)) * IncidentRateScale)

C3_Witness ==
    /\ MetricCall /\ call.kpi = "incident_rate" /\ call.column = None
    /\ call.df.id = "new" /\ Len(call.df.rows) < Len(data.rows)
    /\ \E s \in {r.state_code : r \in CallRows} :
          /\ Cardinality(RowsOfState(s)) > Cardinality(CompaniesOf(s))
          /\ DeduplicatedSum(s, "total_hours_worked") > 0

\* C4: on a non-empty record set and without a secondary column, every
\* value of every metric table is a finite non-negative number, and a state
\* whose deduplicated total_hours_worked (annual_average_employees) is 0 has
\* incident_rate (workforce_exposure) 0.
C4_RatesFinite ==
    (MetricCall /\ call.column = None /\ call.df.rows # <<>>) =>
        \A r \in Range(call.result.rows) :
            /\ \A c \in Range(call.result.columns) : IsFin(r.cell[c])
            /\ (/\ call.kpi = "incident_rate"
                /\ RowsOfState(r.key[1]) # {}
                /\ DeduplicatedSum(r.key[1], "total_hours_worked") = 0)
                  => r.cell["incident_rate"] = Zero
            /\ (/\ call.kpi = "workforce_exposure"
                /\ RowsOfState(r.key[1]) # {}
                /\ DeduplicatedSum(r.key[1], "annual_average_employees") = 0)
                  => r.cell["workforce_exposure"] = Zero

\* the records of group `key` and the first record of each company of a state
RowsOfGroup(key) ==
    {j \in 1..Len(call.df.rows) : KeyOf(call.df.rows[j], call.column) = key}
FirstOfCompany(j) ==
    ~\E h \in 1..(j - 1) :
        /\ call.df.rows[h].state_code = call.df.rows[j].state_code
        /\ call.df.rows[h].company_name = call.df.rows[j].company_name

\* a group with records none of which is the first record of its company
UndefinedDenominator(key) ==
    /\ RowsOfGroup(key) # {}
    /\ \A j \in RowsOfGroup(key) : ~FirstOfCompany(j)

\* C5: with a secondary column every row of incident_rate and of
\* workforce_exposure has a defined numeric value, and a group whose
\* denominator is undefined evaluates to 0 (stated here for records whose
\* company-level fields are positive).
C5_SecondaryDefined ==
    (/\ MetricCall /\ call.column # None
     /\ call.kpi \in {"incident_rate", "workforce_exposure"}
     /\ \A x \in CallRows : x.total_hours_worked > 0 /\ x.annual_average_employees > 0) =>
        \A r \in Range(call.result.rows) :
            /\ ~IsNaN(r.cell[call.kpi])
            /\ UndefinedDenominator(r.key) => r.cell[call.kpi] = Zero

\* C6: a metric table has at most one row per grouping key, and with a
\* secondary column the company-level denominators of the groups of a state
\* add up to the state's deduplicated total.
C6_GroupsPartitionState ==
    MetricCall =>
        /\ \A a, b \in 1..Len(call.result.rows) :
              a # b => call.result.rows[a].key # call.result.rows[b].key
        /\ call.column # None =>
              \A s \in {r.state_code : r \in CallRows},
                 field \in {"total_hours_worked", "annual_average_employees"} :
                  LET company_data == aggregate_company_data(call.df, call.column, field)
                      groups == {j \in 1..Len(company_data.rows) :
                                    company_data.rows[j].key[1] = s}
                  IN  SetSum(groups, [j \in groups |->
                                        company_data.rows[j].cell[field].i])
                        = DeduplicatedSum(s, field)

C6_Witness ==
    /\ MetricCall /\ call.column # None
    /\ \E a, b \in 1..Len(call.df.rows) :
          /\ call.df.rows[a].state_code = call.df.rows[b].state_code
          /\ call.df.rows[a].company_name = call.df.rows[b].company_name
          /\ call.df.rows[a][call.column] # call.df.rows[b][call.column]
          /\ call.df.rows[a].total_hours_worked > 0
    /\ Len(call.result.rows) >= 2

Keys(table) == Map(table.rows, LAMBDA r : r.key)

\* C7: compute_agg_safety_score has exactly one row per key of the
\* incident_rate table, and on it danger_score = 2.38*incident_rate +
\* 3.33*fatality_rate + 0.37*lost_workday_rate + 1.4*workforce_exposure of
\* the four metric functions for that key.
C7_DangerScore ==
    (MetricCall /\ call.kpi = "danger_score") =>
        LET ir == compute_agg_incident_rate(call.df, call.column)
            fr == compute_agg_fatality_rate(call.df, call.column)
            lw == compute_agg_lost_workday_rate(call.df, call.column)
            we == compute_workforce_exposure(call.df, call.column)
        IN  /\ Keys(call.result) = Keys(ir)
            /\ \A r \in Range(call.result.rows) :
                  MulInt(WeightDenominator, r.cell["danger_score"])
                    = Add(Add(Add(MulInt(WeightIncidentRate,
                                         ValueAt(ir, r.key, "incident_rate")),
                                  MulInt(WeightFatalityRate,
                                         ValueAt(fr, r.key, "fatality_rate"))),
                              MulInt(WeightLostWorkdayRate,
                                     ValueAt(lw, r.key, "lost_workday_rate"))),
                          MulInt(WeightWorkforceExposure,
                                 ValueAt(we, r.key, "workforce_exposure")))

C7_Witness ==
    /\ MetricCall /\ call.kpi = "danger_score"
    /\ Len(call.result.rows) = 2
    /\ \A r \in Range(call.result.rows) :
          /\ IsFin(r.cell["danger_score"])
          /\ r.cell["fatality_rate"] # Zero
          /\ r.cell["lost_workday_rate"] # Zero
          /\ r.cell["fatality_rate"] # r.cell["lost_workday_rate"]

\* 0 <= q <= 1
InUnitInterval(q) ==
    /\ q.k = "quot"
    /\ ~q.neg \/ q.num = Zero
    /\ LeFin(q.num, q.den)

\* C8: every scaled_value and scaled_mean_value of prepare_radar_data lies
\* in [0,1], for every state and every filtered record set (stated here for
\* a dataset whose company-level fields are positive, a state that has
\* records in the set and rows whose value and mean are finite).
C8_ScaledInUnitInterval ==
    (/\ RadarCall /\ ~call.raised /\ RowsOfState(call.state_code) # {}
     /\ \A x \in Range(data.rows) :
           x.total_hours_worked > 0 /\ x.annual_average_employees > 0) =>
        \A r \in Range(call.result) :
            (IsFin(r.value) /\ IsFin(r.mean_value)) =>
                InUnitInterval(r.scaled_value) /\ InUnitInterval(r.scaled_mean_value)

\* C9: when the global maximum of a metric equals its global minimum, the
\* scaled value and the scaled mean of that metric are 0 whatever the input
\* value, and no division is evaluated.
C9_DegenerateRange ==
    (RadarCall /\ ~call.raised) =>
        \A r \in Range(call.result) :
            max_metric_values[r.kpi] = min_metric_values[r.kpi] =>
                /\ r.scaled_value = Literal0
                /\ r.scaled_mean_value = Literal0
                /\ ~r.scaled_value.divided /\ ~r.scaled_mean_value.divided

C9_Witness ==
    /\ RadarCall /\ ~call.raised
    /\ \E r \in Range(call.result) :
          /\ max_metric_values[r.kpi] = min_metric_values[r.kpi]
          /\ IsFin(r.value) /\ r.value # min_metric_values[r.kpi]
          /\ r.scaled_value = Literal0
    /\ \E r \in Range(call.result) : r.scaled_value.divided

\* C10: no call changes the process-wide state: the base dataset,
\* region_safety_score and the min/max/mean dictionaries stay as loaded.
C10_ProcessStateImmutable == [][UNCHANGED globals]_vars

(***************************************************************************)
(* Properties of the callbacks                                             *)
(***************************************************************************)
\* the last callback served, and the session it served
Served(op) == call.op = op
Replied == call.result.status = "ok"
Before == call.inputs
After == layout[call.session]
\* the date/type filtered records of the request
DateTypeFiltered ==
    filter_data(data, Before.start_date, Before.end_date,
                Before.incident_filter_dropdown).rows
HasPoints(payload) == "points" \in DOMAIN payload

\* C11: sessions are independent under every interleaving: a step serves one
\* session, and it changes neither the component properties (last-clicked
\* outcome, selected state, selected KPI, filter, stores) nor the triggered
\* callbacks of any other session.
C11_SessionsIndependent ==
    [][\A s \in Sessions :
          (layout'[s] # layout[s] \/ triggered'[s] # triggered[s]) => call'.session = s]_vars

\* a session holds a bar outcome while the other one, without one, has just
\* changed its state by a map click
C11_Witness ==
    /\ Served("update_selected_state") /\ Replied
    /\ After.state_dropdown # Before.state_dropdown
    /\ After.bar_selected_data = None
    /\ \E s \in Sessions \ {call.session} :
          /\ layout[s].bar_selected_data \in Outcomes
          /\ layout[s].state_dropdown # After.state_dropdown

\* the records a figure's table was prepared from
HandedTo(figure) == figure.data.df
OfOutcome(rows, o) ==
    LET Is(r) == r.incident_outcome = o IN SelectSeq(rows, Is)

\* C12: a click on outcome o with stored predicate p stores None when p = o,
\* and the treemap and the scatter plot are prepared from the date/type
\* filtered records without an outcome filter; it stores o when p # o, and
\* they are prepared from the records with incident_outcome = o.
C12_BarClickToggles ==
    (Served("update_graphs_on_barchart_click") /\ HasPoints(call.barchart_clickData))
    => LET o == call.barchart_clickData.points[1].y
           p == Before.bar_selected_data
           expected == IF p = o THEN DateTypeFiltered
                       ELSE OfOutcome(DateTypeFiltered, o)
       IN  /\ Replied
           /\ After.bar_selected_data = (IF p = o THEN None ELSE o)
           /\ HandedTo(After.store_treemap1) = expected
           /\ HandedTo(After.store_scatter1) = expected

\* the second of two clicks on the same outcome, started from None: the
\* predicate is back to None
C12_Witness ==
    /\ Served("update_graphs_on_barchart_click") /\ HasPoints(call.barchart_clickData)
    /\ Before.bar_selected_data = call.barchart_clickData.points[1].y
    /\ After.bar_selected_data = None
    /\ HandedTo(Before.store_treemap1) # HandedTo(After.store_treemap1)

\* C13: a map click on a state makes it the selected state (which leaves the
\* selection as it is when the state clicked is the current one), an empty
\* click event keeps the current state, and nothing but a map click changes
\* the selected state: after any sequence of map clicks the selected state is
\* the location of the last one.
C13_MapClickSelects ==
    [][/\ call'.op = "update_selected_state" =>
            LET click_data == call'.click_data
                c == layout[call'.session].state_dropdown
                selected == layout'[call'.session].state_dropdown
            IN  /\ HasPoints(click_data) =>
                      LET s == click_data.points[1].location
                      IN  /\ s # c => selected = s
                          /\ s = c => selected = c
                /\ ~Truthy(click_data) => selected = c
       /\ \A x \in Sessions :
            layout'[x].state_dropdown # layout[x].state_dropdown =>
                /\ call'.op = "update_selected_state" /\ call'.session = x
                /\ HasPoints(call'.click_data)
                /\ layout'[x].state_dropdown = call'.click_data.points[1].location]_vars

\* a click on the state that an earlier click has selected
C13_Witness ==
    /\ Served("update_selected_state") /\ HasPoints(call.click_data)
    /\ Before.state_dropdown = call.click_data.points[1].location
    /\ After.state_dropdown = call.click_data.points[1].location
    /\ After.state_dropdown # main_layout.state_dropdown

\* C14: a radar click sets selected_kpi to the internal key whose display
\* label is the clicked theta; with a label that is not one of the five known
\* ones, or with an empty event, selected_kpi is unchanged, no update is
\* emitted and nothing is raised.
C14_RadarClickSelectsKpi ==
    /\ \A label \in DOMAIN dropdown_options_rev :
          dropdown_options[dropdown_options_rev[label]] = label
    /\ Cardinality(DOMAIN dropdown_options_rev) = Len(Metrics)
    /\ Served("update_on_radar_click") =>
          /\ Replied
          /\ IF /\ HasPoints(call.click_data)
                /\ \E kpi \in Range(Metrics) :
                      dropdown_options[kpi] = call.click_data.points[1].theta
             THEN /\ After.kpi_select_dropdown \in Range(Metrics)
                  /\ dropdown_options[After.kpi_select_dropdown]
                        = call.click_data.points[1].theta
             ELSE HasPoints(call.click_data) \/ ~Truthy(call.click_data)
                     => /\ After = Before
                        /\ triggered[call.session] = {}

\* an unknown label clicked after a known one has changed the KPI
C14_Witness ==
    /\ Served("update_on_radar_click") /\ HasPoints(call.click_data)
    /\ call.click_data.points[1].theta \notin DOMAIN dropdown_options_rev
    /\ After.kpi_select_dropdown = "fatality_rate"
    /\ main_layout.kpi_select_dropdown # "fatality_rate"

\* the event payload of the click handler served
ClickPayload ==
    CASE call.op \in {"update_selected_state", "update_on_radar_click"} -> call.click_data
      [] call.op = "update_graphs_on_barchart_click" -> call.barchart_clickData
      [] call.op = "update_graphs_with_treemap_click" -> call.treemap_clickData
ClickHandlers == {"update_selected_state", "update_on_radar_click",
                  "update_graphs_on_barchart_click", "update_graphs_with_treemap_click"}
Stores == {"store_treemap1", "store_bar1", "store_scatter1",
           "store_treemap2", "store_bar2", "store_scatter2"}

\* C15: for the map, radar, bar and treemap click handlers a click event that
\* is not empty and has no `points` is a no-op: nothing is raised, and the
\* selected state, the selected KPI, the stored bar outcome and the six chart
\* stores keep their values.
C15_MalformedClickIsNoOp ==
    (call.op \in ClickHandlers /\ Truthy(ClickPayload) /\ ~HasPoints(ClickPayload))
    => /\ call.result.status # "raised"
       /\ After.state_dropdown = Before.state_dropdown
       /\ After.kpi_select_dropdown = Before.kpi_select_dropdown
       /\ After.bar_selected_data = Before.bar_selected_data
       /\ \A store \in Stores : After[store] = Before[store]

AxisKeys == {"xaxis.range[0]", "xaxis.range[1]", "yaxis.range[0]", "yaxis.range[1]"}

\* C16: a scatter relayout event that is empty, or a pure resize (`autosize`
\* and no axis range key), is aborted before anything is computed: the
\* treemap store and the bar store are not written and nothing is triggered.
C16_ResizeNeverRecomputes ==
    (/\ Served("update_dependent_charts")
     /\ \/ ~Truthy(call.scatter_relayoutData)
        \/ /\ "autosize" \in DOMAIN call.scatter_relayoutData
           /\ DOMAIN call.scatter_relayoutData \cap AxisKeys = {})
    => /\ call.result.status = "prevented"
       /\ After = Before
       /\ triggered[call.session] = {}

\* a pure resize of the scatter plot has been served
C16_Witness ==
    /\ Served("update_dependent_charts")
    /\ DOMAIN call.scatter_relayoutData = {"autosize"}
    /\ call.result.status = "prevented"
    /\ After.store_treemap2 = NoFigure /\ After.store_bar2 = NoFigure

\* the minutes after midnight of a time of day
MinuteOfDay(time) == 60 * time.hour + time.minute
\* lo <= hour + minute/60 <= hi for the bounds lo, hi (fractions of hours)
WithinHours(time, lo, hi) ==
    /\ 60 * lo.num <= MinuteOfDay(time) * lo.den
    /\ MinuteOfDay(time) * hi.den <= 60 * hi.num
BothBounds(payload, axis) ==
    {axis \o ".range[0]", axis \o ".range[1]"} \subseteq DOMAIN payload
\* the rows of the date/type filtered set inside the window of the payload
InsideWindow(payload) ==
    LET Keep(r) ==
            /\ BothBounds(payload, "xaxis") =>
                  WithinHours(r.time_started_work, payload["xaxis.range[0]"],
                              payload["xaxis.range[1]"])
            /\ BothBounds(payload, "yaxis") =>
                  WithinHours(r.time_of_incident, payload["yaxis.range[0]"],
                              payload["yaxis.range[1]"])
    IN  SelectSeq(DateTypeFiltered, Keep)

\* C17: a scatter relayout that is not aborted hands to the treemap and bar
\* preparers the date/type filtered records with xmin <= start-time hour
\* fraction <= xmax when both x bounds are present and ymin <= incident-time
\* hour fraction <= ymax when both y bounds are present, bounds inclusive; an
\* axis with a missing bound adds no constraint.
C17_ZoomWindow ==
    (Served("update_dependent_charts") /\ call.result.status # "prevented")
    => /\ Replied
       /\ HandedTo(After.store_treemap2) = InsideWindow(call.scatter_relayoutData)
       /\ HandedTo(After.store_bar2) = InsideWindow(call.scatter_relayoutData)

\* a zoom on both axes that keeps a record on a bound of the window and
\* drops another
C17_Witness ==
    /\ Served("update_dependent_charts") /\ Replied
    /\ AxisKeys \subseteq DOMAIN call.scatter_relayoutData
    /\ LET kept == HandedTo(After.store_treemap2)
       IN  /\ Len(kept) < Len(DateTypeFiltered)
           /\ \E j \in 1..Len(kept) :
                 MinuteOfDay(kept[j].time_started_work)
                       * call.scatter_relayoutData["xaxis.range[1]"].den
                    = 60 * call.scatter_relayoutData["xaxis.range[1]"].num

OfCategory(rows, soc1) ==
    LET Is(r) == r.soc_description_1 = soc1 IN SelectSeq(rows, Is)
OfSubCategory(rows, soc1, soc2) ==
    LET Is(r) == r.soc_description_1 = soc1 /\ r.soc_description_2 = soc2
    IN  SelectSeq(rows, Is)

\* C18: a treemap click on a node with label L and parent P hands on the
\* records with soc_description_1 = P and soc_description_2 = L when P is not
\* empty and not the root label; those with soc_description_1 = L when P is
\* empty or the root and L is not the root; and all date/type filtered
\* records when L is the root label.
C18_TreemapClickPredicate ==
    (Served("update_graphs_with_treemap_click") /\ HasPoints(call.treemap_clickData))
    => LET node == call.treemap_clickData.points[1]
           L == node.label
           NoParent == "parent" \notin DOMAIN node \/ node.parent = ""
           handed == HandedTo(After.store_bar1)
       IN  /\ Replied
           /\ HandedTo(After.store_scatter2) = handed
           /\ (~NoParent /\ node.parent # RootLabel)
                 => handed = OfSubCategory(DateTypeFiltered, node.parent, L)
           /\ ((NoParent \/ node.parent = RootLabel) /\ L # RootLabel)
                 => handed = OfCategory(DateTypeFiltered, L)
           /\ L = RootLabel => handed = DateTypeFiltered

\* a click on a sub-category that keeps fewer records than its category has
C18_Witness ==
    /\ Served("update_graphs_with_treemap_click") /\ HasPoints(call.treemap_clickData)
    /\ "parent" \in DOMAIN call.treemap_clickData.points[1]
    /\ call.treemap_clickData.points[1].parent \notin {"", RootLabel}
    /\ HandedTo(After.store_bar1) # <<>>
    /\ Len(HandedTo(After.store_bar1))
          < Len(OfCategory(DateTypeFiltered, call.treemap_clickData.points[1].parent))

\* the component properties the callback served has changed
Changed == {property \in DOMAIN After : After[property] # Before[property]}
ChangedCharts ==
    {chart \in DOMAIN After.content_metric_analysis :
        \/ chart \notin DOMAIN Before.content_metric_analysis
        \/ After.content_metric_analysis[chart] # Before.content_metric_analysis[chart]}

\* C19: a trigger writes only what it feeds.  Scatter relayout: the treemap
\* and bar stores of the second set; bar click: the treemap and scatter
\* stores of the first set and the stored outcome; treemap click: the first
\* bar store and the second scatter store; each of them triggers the figure
\* callbacks of its two charts only, and a figure callback changes its own
\* chart only.  Map and radar clicks write the selection they set, and the
\* rebuild that a state, KPI, date or incident-filter change triggers writes
\* the two tab contents only.
C19_WritesOnlyWhatItFeeds ==
    /\ Served("update_dependent_charts") =>
          /\ Changed \subseteq {"store_treemap2", "store_bar2"}
          /\ triggered[call.session]
                \subseteq {"update_treemap_figure", "update_stacked_bar_figure"}
    /\ Served("update_graphs_on_barchart_click") =>
          /\ Changed \subseteq {"store_treemap1", "store_scatter1", "bar_selected_data"}
          /\ triggered[call.session]
                \subseteq {"update_treemap_figure", "update_scatter_figure"}
    /\ Served("update_graphs_with_treemap_click") =>
          /\ Changed \subseteq {"store_bar1", "store_scatter2"}
          /\ triggered[call.session]
                \subseteq {"update_stacked_bar_figure", "update_scatter_figure"}
    /\ Served("update_selected_state") =>
          /\ Changed \subseteq {"state_dropdown"}
          /\ triggered[call.session] \subseteq {"update_tab_contents"}
    /\ Served("update_on_radar_click") =>
          /\ Changed \subseteq {"kpi_select_dropdown"}
          /\ triggered[call.session] \subseteq {"update_tab_contents"}
    /\ Served("update_tab_contents") =>
          Changed \subseteq {"content", "content_metric_analysis"}
    /\ Served("update_stacked_bar_figure") =>
          Changed \subseteq {"content_metric_analysis"}
             /\ ChangedCharts \subseteq {"stacked_bar_chart"}
    /\ Served("update_scatter_figure") =>
          Changed \subseteq {"content_metric_analysis"}
             /\ ChangedCharts \subseteq {"scatter_plot"}
    /\ Served("update_treemap_figure") =>
          Changed \subseteq {"content_metric_analysis"}
             /\ ChangedCharts \subseteq {"treemap_chart"}

\* a bar click has written its three outputs while the bar store that an
\* earlier treemap click filled keeps its figure
C19_Witness ==
    /\ Served("update_graphs_on_barchart_click") /\ Replied
    /\ Changed = {"store_treemap1", "store_scatter1", "bar_selected_data"}
    /\ After.store_bar1 # NoFigure
    /\ triggered[call.session] = {"update_treemap_figure", "update_scatter_figure"}

\* C20: selections compose: with a bar outcome o stored by an earlier click,
\* the records handed on by a later treemap click or scatter zoom all satisfy
\* incident_outcome = o besides the later predicate.
C20_SelectionsCompose ==
    /\ (Served("update_graphs_with_treemap_click") /\ Replied
        /\ Before.bar_selected_data \in Outcomes)
       => \A j \in 1..Len(HandedTo(After.store_bar1)) :
             HandedTo(After.store_bar1)[j].incident_outcome = Before.bar_selected_data
    /\ (Served("update_dependent_charts") /\ Replied
        /\ Before.bar_selected_data \in Outcomes)
       => \A j \in 1..Len(HandedTo(After.store_bar2)) :
             HandedTo(After.store_bar2)[j].incident_outcome = Before.bar_selected_data

(***************************************************************************)
(* Properties of the chart preparers                                       *)
(***************************************************************************)
PreparerCall(op) == pc = "done" /\ call.op = op

\* the records of the call's input that belong to the requested state
StateRecords == {j \in 1..Len(call.df.rows) : call.df.rows[j].state_code = call.state_code}

\* ... and whose establishment type is stated
Remaining ==
    {j \in StateRecords :
        call.df.rows[j].establishment_type \notin {"Not Stated", "Invalid Entry"}}
RemainingOf(o) == {j \in Remaining : call.df.rows[j].incident_outcome = o}
RemainingOfType(o, e) == {j \in RemainingOf(o) : call.df.rows[j].establishment_type = e}

\* C21: prepare_stacked_bar_chart ignores the records of other states and
\* those whose establishment type is "Not Stated" or "Invalid Entry"; it has
\* exactly one row per incident outcome with a remaining record, and on a
\* row every proportion is count / row total, the proportions summing to 1.
C21_StackedBarProportions ==
    PreparerCall("prepare_stacked_bar_chart") =>
        LET table == call.result
            outcomes == {call.df.rows[j].incident_outcome : j \in Remaining}
            types == {call.df.rows[j].establishment_type : j \in Remaining}
        IN  /\ {r.key[1] : r \in Range(table.rows)} = outcomes
            /\ Len(table.rows) = Cardinality(outcomes)
            /\ Range(table.columns) = types
            /\ \A r \in Range(table.rows) :
                  /\ DOMAIN r.cell = types
                  /\ \A e \in types :
                        /\ IsFin(r.cell[e])
                        /\ MulInt(Cardinality(RemainingOf(r.key[1])), r.cell[e])
                             = Whole(Cardinality(RemainingOfType(r.key[1], e)))
                  /\ SumVals([j \in 1..Len(table.columns) |-> r.cell[table.columns[j]]])
                       = Whole(1)

\* a call where records are ignored for their state and for their
\* establishment type, an outcome of the state is left without a record and
\* a row has a proportion strictly between 0 and 1
C21_Witness ==
    /\ PreparerCall("prepare_stacked_bar_chart")
    /\ StateRecords # DOMAIN call.df.rows
    /\ Remaining # StateRecords
    /\ \E j \in StateRecords : RemainingOf(call.df.rows[j].incident_outcome) = {}
    /\ \E r \in Range(call.result.rows) : \E e \in DOMAIN r.cell :
          r.cell[e] = Frac(1, 2)

\* the records of the state whose occupation is assigned, and those of one
\* (soc_description_1, soc_description_2) pair
AssignedRecords ==
    {j \in StateRecords :
        call.df.rows[j].soc_description_1 \notin {"Insufficient info", "Not assigned"}}
SocPair(j) == <<call.df.rows[j].soc_description_1, call.df.rows[j].soc_description_2>>
PairRecords(key) == {j \in AssignedRecords : SocPair(j) = key}

\* C22: the counts of prepare_treemap_data add up to the number of records
\* of the state whose soc_description_1 is neither "Insufficient info" nor
\* "Not assigned", and no (soc_description_1, soc_description_2) pair has
\* two rows.
C22_TreemapCounts ==
    PreparerCall("prepare_treemap_data") =>
        LET rows == call.result.rows
        IN  /\ SumVals([j \in 1..Len(rows) |-> rows[j].cell["count"]])
                 = Whole(Cardinality(AssignedRecords))
            /\ \A j, k \in 1..Len(rows) : rows[j].key = rows[k].key => j = k

\* a call on records of both states, some of the requested state left out
\* for their occupation, the rest in one pair with two records
C22_Witness ==
    /\ PreparerCall("prepare_treemap_data")
    /\ StateRecords # DOMAIN call.df.rows
    /\ AssignedRecords # StateRecords
    /\ \E r \in Range(call.result.rows) : r.cell["count"] = Whole(2)

\* the companies with a record in the pair, and their hours summed once each
PairCompanies(key) == {call.df.rows[j].company_name : j \in PairRecords(key)}
PairHours(key) ==
    SetSum(PairCompanies(key),
           [c \in PairCompanies(key) |->
              call.df.rows[CHOOSE j \in PairRecords(key) :
                              call.df.rows[j].company_name = c].total_hours_worked])
PairRows(key) ==
    LET InPair(r) == /\ r.state_code = call.state_code
                     /\ <<r.soc_description_1, r.soc_description_2>> = key
    IN  SelectSeq(call.df.rows, InPair)

\* C23: the metric of a pair is the chosen metric function on exactly the
\* pair's records of the state; for incident_rate it is (records of the
\* pair) / (total_hours_worked summed once per company with a record in the
\* pair) * 1e5.
C23_TreemapMetricScopedToGroup ==
    PreparerCall("prepare_treemap_data") =>
        \A r \in Range(call.result.rows) :
            /\ r.cell["metric"] =
                  LET table == kpi_name_function_mapping(
                                   call.kpi, [id |-> "new", rows |-> PairRows(r.key)], None)
                  IN  ValueAt(table, <<call.state_code>>, call.kpi)
            /\ (call.kpi = "incident_rate" /\ PairHours(r.key) > 0) =>
                  MulInt(PairHours(r.key), r.cell["metric"])
                    = Whole(Cardinality(PairRecords(r.key)) * IncidentRateScale)

\* an incident_rate call where a company with hours has records in two
\* pairs and another company of the state has no record in one of them
C23_Witness ==
    /\ PreparerCall("prepare_treemap_data") /\ call.kpi = "incident_rate"
    /\ \E j, k \in AssignedRecords :
          /\ call.df.rows[j].company_name = call.df.rows[k].company_name
          /\ SocPair(j) # SocPair(k)
          /\ call.df.rows[j].total_hours_worked > 0
          /\ \E h \in StateRecords :
                call.df.rows[h].company_name \notin PairCompanies(SocPair(j))

\* C24: on a record set without rows, or without rows of the requested
\* state, each of the five preparers raises nothing and returns its columns
\* with zero rows.
C24_EmptyInputEmptyTable ==
    /\ \A op \in {"prepare_stacked_bar_chart", "prepare_treemap_data",
                  "prepare_scatter_plot"} :
          (PreparerCall(op) /\ StateRecords = {}) =>
              /\ ~call.raised
              /\ call.result.rows = <<>>
              /\ op = "prepare_treemap_data" => call.result.columns = <<"count", "metric">>
              /\ op = "prepare_scatter_plot" => Len(call.result.columns) = 6
    /\ (PreparerCall("prepare_state_data") /\ call.df.rows = <<>>) =>
          /\ ~call.raised
          /\ call.result.rows = <<>>
          /\ call.kpi \in Range(call.result.columns)
    /\ (PreparerCall("prepare_radar_data") /\ StateRecords = {}) =>
          /\ ~call.raised
          /\ call.result = <<>>

\* the radar table recomputed from the records alone: the composite metrics
\* of the record set, the state's values, the column means and their scaling
Recomputed(df, state_code) ==
    LET OfState(r) == r.key = <<state_code>>
        Fresh(table) ==
            LET selected == SelectSeq(table.rows, OfState)
            IN  [raised |-> Len(selected) # 1,
                 rows |-> IF Len(selected) # 1 THEN <<>>
                          ELSE [j \in 1..Len(Metrics) |->
                                  [kpi |-> Metrics[j],
                                   value |-> selected[1].cell[Metrics[j]],
                                   scaled_value |->
                                      scale(selected[1].cell[Metrics[j]], Metrics[j]),
                                   mean_value |->
                                      column_mean(ColumnData(table, Metrics[j])),
                                   scaled_mean_value |->
                                      scale(column_mean(ColumnData(table, Metrics[j])),
                                            Metrics[j])]]]
    IN  The({ Fresh(table) :
              table \in {compute_agg_safety_score([id |-> "new", rows |-> df.rows], None)} })

\* C25: what prepare_radar_data returns is what recomputing the composite
\* metrics on its record set gives, on the base dataset (where the
\* precomputed table is reused) as on any other, at the first call and at
\* every later one.
C25_FastPathIsPureOptimization ==
    RadarCall =>
        \E fresh \in {Recomputed(call.df, call.state_code)} :
            /\ call.raised = fresh.raised
            /\ call.result = fresh.rows

\* a later call on the base dataset: the precomputed table has already been
\* through an earlier call
C25_Witness ==
    /\ RadarCall /\ call.df.id = data.id /\ ~call.raised
    /\ Len(region_safety_score.columns) = Len(Metrics) * (MaxRadarCalls + 1)
    /\ \E r \in Range(call.result) : IsFin(r.value) /\ r.value # Zero
    /\ \E r \in Range(call.result) : r.scaled_mean_value.divided

\* the callbacks fired by a chart event, the chart a figure callback draws
\* and the stores it reads
Triggers == {"update_dependent_charts", "update_graphs_on_barchart_click",
             "update_graphs_with_treemap_click"}
FigureCallbacks == {"update_stacked_bar_figure", "update_scatter_figure",
                    "update_treemap_figure"}
ChartOf(fired) ==
    CASE fired = "update_stacked_bar_figure" -> "stacked_bar_chart"
      [] fired = "update_scatter_figure" -> "scatter_plot"
      [] fired = "update_treemap_figure" -> "treemap_chart"
StoresOf(fired) ==
    CASE fired = "update_stacked_bar_figure" -> {"store_bar1", "store_bar2"}
      [] fired = "update_scatter_figure" -> {"store_scatter1", "store_scatter2"}
      [] fired = "update_treemap_figure" -> {"store_treemap1", "store_treemap2"}

\* what a figure draws: the table prepared from the arguments it keeps
TableOf(figure) ==
    CASE figure.chart = "stacked_bar" ->
            prepare_stacked_bar_chart([id |-> "new", rows |-> figure.data.df],
                                      figure.data.state_code)
      [] figure.chart = "scatter" ->
            prepare_scatter_plot([id |-> "new", rows |-> figure.data.df],
                                 figure.data.state_code)
      [] figure.chart = "treemap" ->
            prepare_treemap_data([id |-> "new", rows |-> figure.data.df],
                                 figure.data.state_code, figure.data.selected_kpi)

\* C26: when a figure callback answers the trigger that has just written
\* one of its stores, the chart shows the figure that trigger computed,
\* whatever an earlier trigger left in the other store.
C26_ChartShowsLatestTrigger ==
    [][\A s \in Sessions, fired \in FigureCallbacks :
          (/\ call.op \in Triggers /\ call.session = s /\ call.result.status = "ok"
           /\ call'.op = fired /\ call'.session = s
           /\ DOMAIN call.result.out \cap StoresOf(fired) # {})
          => \E store \in DOMAIN call.result.out \cap StoresOf(fired) :
                TableOf(layout'[s].content_metric_analysis[ChartOf(fired)])
                   = TableOf(call.result.out[store])]_vars

\* the charts of the metric analysis tab have just been drawn without an
\* outcome filter: by a rebuild of the tab, a treemap click or a scatter zoom
RedrawnWithoutOutcome ==
    /\ call.op \in {"update_tab_contents", "update_dependent_charts",
                    "update_graphs_with_treemap_click"}
    /\ Replied
    /\ After.content_metric_analysis.children = "charts"

\* C27: after the charts are redrawn without an outcome filter the stored
\* bar outcome is None, so a bar click on any outcome o that comes next
\* stores o and hands on the records with incident_outcome = o.
C27_StoredOutcomeFollowsCharts ==
    RedrawnWithoutOutcome =>
        /\ After.bar_selected_data = None
        /\ \A o \in Outcomes :
              \E next \in {update_graphs_on_barchart_click(
                              [points |-> <<[y |-> o]>>], After.start_date, After.end_date,
                              After.incident_filter_dropdown, After.kpi_select_dropdown,
                              After.state_dropdown, After.bar_selected_data)} :
                  /\ next.out.bar_selected_data = o
                  /\ HandedTo(next.out.store_treemap1)
                       = OfOutcome(filter_data(data, After.start_date, After.end_date,
                                               After.incident_filter_dropdown).rows, o)

\* the treemap figure the callback just served has produced, if any
TreemapProduced ==
    CASE call.op = "update_tab_contents" /\ Replied
         /\ call.result.out.content_metric_analysis.children = "charts" ->
            {call.result.out.content_metric_analysis.treemap_chart}
      [] call.op = "update_graphs_on_barchart_click" /\ Replied ->
            {call.result.out.store_treemap1}
      [] call.op = "update_dependent_charts" /\ Replied ->
            {call.result.out.store_treemap2}
      [] OTHER -> {}

\* the treemap table the rebuild of the metric analysis tab prepares for a
\* record set and a state (application.py:670-674)
RebuildTable(rows, state_code) ==
    prepare_treemap_data([id |-> "new", rows |-> rows], state_code, "incident_rate")

\* C28: the treemap table of the tab rebuild, of the bar-click handler and
\* of the scatter-relayout handler is, for the record set and the state it
\* is prepared from, one and the same table, whatever KPI is selected.
C28_TreemapPathsAgree ==
    \A figure \in TreemapProduced :
        TableOf(figure) = RebuildTable(figure.data.df, figure.data.state_code)

====
